---- MODULE Spec2Model ----
(***************************************************************************)
(* Verification model of the concurrent verification engine of             *)
(* gaudi-connection:                                                        *)
(*   - AsyncPerfRunner (src/src/runner/AsyncPerfRunner.py): the priority    *)
(*     queue, the worker tasks, the thread pool and the results map;        *)
(*   - AsyncPerfRunner._run_single_test: the supervision of one             *)
(*     server/client process pair and the classification of its output;     *)
(*   - PerfRunner (src/src/runner/PerfRunner.py): the synchronous runner    *)
(*     reused for consecutive connections;                                 *)
(*   - run_connection_tests_async: submission, collection and summary.     *)
(* Spec      is the worker pool (the test itself reduced to its outcome).   *)
(* SpecOrder is the same pool with more requests, for the dequeue order.    *)
(* SpecTest  is the supervision of a single test, by either runner.         *)
(* SpecRun   is a call of run_connection_tests_async on the pool.           *)
(* The links under test come from a connectivity file:                     *)
(*   - GaudiRouting (both packages) parses it, and the one of src/src      *)
(*     matches its links to the devices; RunConnection filters them by     *)
(*     port health;                                                        *)
(*   - test_connections of gaudi_connect filters and tests them;           *)
(*   - either runner builds the two commands of a test.                    *)
(* SpecParse is a parse of a connectivity file, by either package.         *)
(* SpecLinks is the way of the links from the file to the tests.           *)
(* SpecCmd   is the construction of the server and client commands.        *)
(* SpecFactory is a GaudiDeviceFactory and its caches.                     *)
(***************************************************************************)
EXTENDS Integers, Sequences, FiniteSets, TLC

\* ------------------------------------------------------------------ bounds
\* N, the max_concurrent_tests the runner is constructed with.
MaxConcurrent == 2
\* Number of requests submitted in one run of the pool (Spec).
MaxRequests == 3
\* Number of requests submitted in one run of the ordering check (SpecOrder).
MaxQueued == 4
\* Number of lines a benchmark process prints in one AsyncPerfRunner test.
MaxLines == 2
\* Number of connections handed to RealRunConnection.
MaxConnections == 2
\* Largest priority value a request carries (priorities 0..MaxPriority).
MaxPriority == 1
\* Number of lines of a connectivity file.
MaxFileLines == 3
\* Number of devices in a device snapshot.
MaxDevices == 2
\* Number of match_devices_to_connections calls on one GaudiRouting.
MaxMatchCalls == 2
\* Number of connections handed to test_connections.
MaxLinks == 2

MaxSnapshots == 2

\* ------------------------------------------------------------------ state
VARIABLES
  \* --- AsyncPerfRunner, the pool
  request_queue,    \* heap array of asyncio.PriorityQueue: entries (priority, request)
  submitted,        \* number of submit_test calls so far (request ids 1..submitted)
  running,          \* self.running
  shutdown_event,   \* self.shutdown_event is set
  start_pc,         \* start(): "not_started" | "waiting" | "gathering" | "finished"
  stop_pc,          \* stop(): "idle" | "shutdown_wait" | "done"
  executor_shutdown,\* self.executor.shutdown has been called
  worker,           \* worker task -> [pc, req, cancel]
  thread,           \* request id -> state of its work item in the executor
  fut_cancelled,    \* request ids whose future was cancelled by stop()
  ret,              \* request id -> status of the result its thread returned
  active_tests,     \* keys of self.active_tests
  results,          \* request id -> status stored in self.results, or "none"
  stored,           \* request id -> number of times a result was stored for it
  last_dequeue,     \* latest dequeue: the request taken and the one the contract asks
  \* --- AsyncPerfRunner._run_single_test, one call
  pc,               \* position in _run_single_test
  server_process,   \* "None" | "running" | "exited" | "killed"
  client_process,   \* "None" | "running" | "exited" | "killed"
  client_returncode,\* client_process.returncode: "None" | "0" | "1"
  signals,          \* os.killpg calls so far: <<process, signal>>
  result,           \* the PerfTestResult being built
  analyzed,         \* what _analyze_output returned, "None" before it is called
  events,           \* history: what happened during the call
  returning,        \* a `return result` inside the try block is pending
  \* --- PerfRunner, one instance reused by RealRunConnection
  run_pc,               \* position in PerfRunner.run
  run_result,           \* what run() is about to return: "True" | "False" | "raised"
  self_server_process,  \* self.server_process
  self_client_process,  \* self.client_process
  self_client_returncode, \* self.client_process.returncode
  self_server_output,   \* self.server_output
  self_client_output,   \* self.client_output
  self_test_success,    \* self.test_success
  own_server_output,    \* history: what the current run's server has printed
  own_client_output,    \* history: what the current run's client has printed
  own_at_analysis,      \* history: the two above when analyze_results ran
  rrc_index,            \* RealRunConnection: connections dealt with so far
  rrc_results,          \* RealRunConnection: statuses appended to results
  rrc_counts,           \* RealRunConnection: success/failure/error counts
  \* --- the drivers of PerfRunner.run
  rrc_ran,          \* history: connections whose test RealRunConnection ran
  rrc_summary,      \* what RealRunConnection returned
  rmt_pc,           \* run_multiple_tests: "unused" | "looping" | "returned" | "raised"
  rmt_index,        \* run_multiple_tests: connections dealt with so far
  rmt_results,      \* run_multiple_tests: statuses appended to results
  rmt_counts,       \* run_multiple_tests: success/failure/error counts
  rmt_ran,          \* history: connections whose test run_multiple_tests ran
  rmt_summary,      \* what run_multiple_tests returned
  \* --- GaudiDeviceFactory and the machine it reads
  hl_smi,           \* the devices hl-smi reports now
  hl_changes,       \* how often the inventory has changed
  factory,          \* the caches of the factory and of its GaudiDevices
  \* --- run_connection_tests_async, one call
  rcta_pc,          \* "idle" | "submit" | "collect" | "finally" | "done"
  rcta_total,       \* len(connections)
  rcta_next,        \* index in request_ids of the result being waited for
  rcta_results,     \* the list `results`: ids of the results obtained
  rcta_summary,     \* the dictionary returned, `produced` telling whether it was
  rcta_aborted,     \* the call was cancelled while it waited
  \* --- GaudiRouting and RunConnection (src/src/connectivity)
  csv_text,         \* history: the file handed to the last parse_connectivity_file call
  csv_parser,       \* history: "none" | "src" | "gaudi_connect", the package of that call
  parse_returned,   \* what that call returned
  link_pc,          \* GaudiRouting: "new" | "parsed"
  self_connections, \* GaudiRouting.connections
  match_calls,      \* number of match_devices_to_connections calls so far
  match_devices,    \* the devices snapshot of the last call
  matched,          \* what the last call returned
  same_devices,     \* the call before it had the same devices snapshot
  matched_before,   \* what the call before it returned
  make_pc,          \* RunConnection.make_connections: "not_called" | "returned"
  make_inventory,   \* the devices the factory had cached for that call
  make_verify,      \* its verify_connections argument
  self_made,        \* RunConnection.connections, the list it returned
  \* --- test_connections (gaudi_connect/connection_test_main.py), one call
  tc_pc,            \* "idle" | "testing" | "unwinding" | "returned" | "raised"
  tc_args,          \* its arguments, and env: what the machine reports
  tc_valid,         \* valid_connections
  tc_results,       \* the results dictionary
  tc_next,          \* sequential mode: index of the next connection
  tc_future,        \* parallel mode: the futures, one for each valid connection
  tc_collected,     \* parallel mode: the futures as_completed has yielded
  tc_attempted,     \* history: indexes of the connections that were tried
  \* --- the commands of a test
  cmd_runner,       \* "none" | "AsyncPerfRunner" | "PerfRunner", who built them
  cmd_config,       \* <<the request or the runner's configuration>>
  server_cmd,       \* the argument list of the server process
  client_cmd,       \* the argument list of the client process
  completion_order  \* history: ids in the order their results were stored

poolVars == <<request_queue, submitted, running, shutdown_event, start_pc,
              stop_pc, executor_shutdown, worker, thread, fut_cancelled, ret,
              active_tests, results, stored, last_dequeue>>

rstVars == <<pc, server_process, client_process, client_returncode, signals,
             result, analyzed, events, returning>>

perfVars == <<run_pc, run_result, self_server_process, self_client_process,
              self_client_returncode, self_server_output, self_client_output,
              self_test_success, own_server_output, own_client_output,
              own_at_analysis, rrc_index, rrc_results, rrc_counts>>

rctaVars == <<rcta_pc, rcta_total, rcta_next, rcta_results, rcta_summary,
              rcta_aborted>>

linkVars == <<csv_text, csv_parser, parse_returned, link_pc, self_connections,
              match_calls, match_devices, matched, same_devices,
              matched_before, make_pc, make_inventory, make_verify, self_made>>

connVars == <<tc_pc, tc_args, tc_valid, tc_results, tc_next, tc_future,
              tc_collected, tc_attempted>>

cmdVars == <<cmd_runner, cmd_config, server_cmd, client_cmd>>

factoryVars == <<hl_smi, hl_changes, factory>>

driverVars == <<rrc_ran, rrc_summary, rmt_pc, rmt_index, rmt_results,
                rmt_counts, rmt_ran, rmt_summary>>

vars == <<poolVars, rstVars, perfVars, rctaVars, linkVars, connVars, cmdVars,
          driverVars, factoryVars, completion_order>>

\* What the steps of one component leave alone.
nonPoolVars == <<rstVars, perfVars, rctaVars, linkVars, connVars, cmdVars, driverVars, factoryVars,
  completion_order>>

nonRstVars == <<poolVars, perfVars, rctaVars, linkVars, connVars, cmdVars, driverVars, factoryVars,
  completion_order>>

nonPerfVars == <<poolVars, rstVars, rctaVars, linkVars, connVars, cmdVars, driverVars, factoryVars,
  completion_order>>

nonRctaVars == <<poolVars, rstVars, perfVars, linkVars, connVars, cmdVars, driverVars, factoryVars,
  completion_order>>

nonLinkVars == <<poolVars, rstVars, perfVars, rctaVars, connVars, cmdVars, driverVars, factoryVars,
                 completion_order>>

nonCmdVars == <<poolVars, rstVars, perfVars, rctaVars, linkVars, connVars, driverVars, factoryVars,
                completion_order>>

\* What the drivers of PerfRunner.run leave alone besides the runner.
nonDriverVars == <<poolVars, rstVars, rctaVars, linkVars, connVars, cmdVars, factoryVars,
                   completion_order>>

nonFactoryVars == <<poolVars, rstVars, perfVars, rctaVars, linkVars, connVars,
                    cmdVars, driverVars, completion_order>>

nonConnVars == <<poolVars, rstVars, perfVars, rctaVars, linkVars, cmdVars, driverVars, factoryVars,
                 completion_order>>

\* ------------------------------------------------------------ AsyncPerfRunner
Statuses == {"success", "failed", "error", "timeout"}

\* The statuses the pool is run with. The pool never looks into a result, so
\* two values are enough to tell one request's result from another's.
PoolStatuses == {"success", "failed"}

\* request_id: requests are numbered in submission order.
RequestIds == 1..(IF MaxQueued > MaxRequests THEN MaxQueued ELSE MaxRequests)

Priorities == 0..MaxPriority

\* self.max_concurrent_tests: sizes both the executor and the set of workers.
max_concurrent_tests_off == MaxConcurrent + 1

max_concurrent_tests == MaxConcurrent

\* ThreadPoolExecutor(max_workers=max_concurrent_tests)
max_workers == max_concurrent_tests

\* range(self.max_concurrent_tests) in start()
Workers == 1..max_concurrent_tests

\* PerfTestRequest.__lt__
RequestLt(a, b) == a.prio < b.prio

\* (priority, request) < (priority, request): tuples compare their first
\* elements and, when these are equal, the requests themselves.
EntryLt(a, b) == IF a.prio # b.prio THEN a.prio < b.prio ELSE RequestLt(a, b)

\* Element at 0-based position i of heap h, and h with position i set to x.
At(h, i) == h[i + 1]

Put(h, i, x) == [h EXCEPT ![i + 1] = x]

\* heapq._siftdown(heap, startpos, pos), newitem being heap[pos].
RECURSIVE SiftDownLoop(_, _, _, _)
SiftDownLoop(h, startpos, pos, newitem) ==
  IF pos > startpos
  THEN LET parentpos == (pos - 1) \div 2
           parent == At(h, parentpos)
       IN IF EntryLt(newitem, parent)
          THEN SiftDownLoop(Put(h, pos, parent), startpos, parentpos, newitem)
          ELSE Put(h, pos, newitem)
  ELSE Put(h, pos, newitem)

SiftDown(h, startpos, pos) == SiftDownLoop(h, startpos, pos, At(h, pos))

\* heapq._siftup(heap, pos): bubble the smaller child up to a leaf, then sift down.
RECURSIVE SiftUpLoop(_, _, _, _)
SiftUpLoop(h, startpos, pos, newitem) ==
  LET endpos == Len(h)
      childpos == 2 * pos + 1
  IN IF childpos < endpos
     THEN LET rightpos == childpos + 1
              c == IF rightpos < endpos /\ ~EntryLt(At(h, childpos), At(h, rightpos))
                   THEN rightpos ELSE childpos
          IN SiftUpLoop(Put(h, pos, At(h, c)), startpos, c, newitem)
     ELSE SiftDown(Put(h, pos, newitem), startpos, pos)

SiftUp(h, pos) == SiftUpLoop(h, pos, pos, At(h, pos))

\* heapq.heappush
HeapPush(h, x) == SiftDown(Append(h, x), 0, Len(h))

\* heapq.heappop: the item returned and the heap left.
HeapPopItem(h) == h[1]

HeapPopRest(h) ==
  LET lastelt == h[Len(h)]
      rest == SubSeq(h, 1, Len(h) - 1)
  IN IF Len(rest) = 0 THEN rest ELSE SiftUp(Put(rest, 0, lastelt), 0)

\* What the ordering contract asks the next dequeue to be: the queued request of
\* the least priority value, and among those the one submitted first (ids are
\* given in submission order).
Queued(h) == {h[i] : i \in 1..Len(h)}

FifoNext(h) ==
  CHOOSE e \in Queued(h) :
    \A q \in Queued(h) : e.prio < q.prio \/ (e.prio = q.prio /\ e.id <= q.id)

\* Requests whose test is executing in a pool thread: their process pair is live.
ActivePairs == {r \in RequestIds : thread[r] = "running"}

PoolInit ==
  /\ request_queue = <<>>
  /\ submitted = 0
  /\ running = FALSE
  /\ shutdown_event = FALSE
  /\ start_pc = "not_started"
  /\ stop_pc = "idle"
  /\ executor_shutdown = FALSE
  /\ worker = [w \in Workers |-> [pc |-> "none", req |-> 0, cancel |-> FALSE]]
  /\ thread = [r \in RequestIds |-> "none"]
  /\ fut_cancelled = {}
  /\ ret = [r \in RequestIds |-> "none"]
  /\ active_tests = {}
  /\ results = [r \in RequestIds |-> "none"]
  /\ stored = [r \in RequestIds |-> 0]
  /\ last_dequeue = [taken |-> 0, fifo |-> 0]

\* The event loop runs one task step at a time; stop() keeps it inside
\* executor.shutdown(wait=True) until every pool thread has ended.
LoopFree == stop_pc # "shutdown_wait"

\* `while self.running:` at the top of the worker loop.
LoopTop == IF running THEN "get" ELSE "stopped"

\* submit_test: put (priority, request) on the queue.
submit_test(p) ==
  /\ LoopFree
  /\ submitted' = submitted + 1
  /\ request_queue' = HeapPush(request_queue, [prio |-> p, id |-> submitted + 1])
  /\ UNCHANGED <<running, shutdown_event, start_pc, stop_pc, executor_shutdown,
                 worker, thread, fut_cancelled, ret, active_tests, results,
                 stored, last_dequeue>>
  /\ UNCHANGED nonPoolVars

\* start(): set running, create the worker tasks, wait for the shutdown event.
\* Event.wait() returns at once when the event is already set, and start() then
\* cancels the workers before any of them has run.
start ==
  /\ LoopFree
  /\ start_pc = "not_started"
  /\ running' = TRUE
  /\ worker' = [w \in Workers |->
                  [pc |-> "created", req |-> 0, cancel |-> shutdown_event]]
  /\ start_pc' = IF shutdown_event THEN "gathering" ELSE "waiting"
  /\ UNCHANGED <<request_queue, submitted, shutdown_event, stop_pc,
                 executor_shutdown, thread, fut_cancelled, ret, active_tests,
                 results, stored, last_dequeue>>
  /\ UNCHANGED nonPoolVars

\* start() after shutdown_event.wait(): worker.cancel() for every worker.
start_cancel_workers ==
  /\ LoopFree
  /\ start_pc = "waiting"
  /\ shutdown_event
  /\ worker' = [w \in Workers |-> [worker[w] EXCEPT !.cancel = TRUE]]
  /\ start_pc' = "gathering"
  /\ UNCHANGED <<request_queue, submitted, running, shutdown_event, stop_pc,
                 executor_shutdown, thread, fut_cancelled, ret, active_tests,
                 results, stored, last_dequeue>>
  /\ UNCHANGED nonPoolVars

\* start(): asyncio.gather(*workers) returns once every worker has ended.
start_gathered ==
  /\ LoopFree
  /\ start_pc = "gathering"
  /\ \A w \in Workers : worker[w].pc = "stopped"
  /\ start_pc' = "finished"
  /\ UNCHANGED <<request_queue, submitted, running, shutdown_event, stop_pc,
                 executor_shutdown, worker, thread, fut_cancelled, ret,
                 active_tests, results, stored, last_dequeue>>
  /\ UNCHANGED nonPoolVars

\* stop(): clear running, set the event, cancel the futures that are not done,
\* then executor.shutdown(wait=True), which blocks the loop.
stop ==
  /\ stop_pc = "idle"
  /\ running' = FALSE
  /\ shutdown_event' = TRUE
  /\ fut_cancelled' = fut_cancelled \cup
                        {r \in active_tests : thread[r] \in {"pending", "running"}}
  /\ executor_shutdown' = TRUE
  /\ stop_pc' = "shutdown_wait"
  /\ UNCHANGED <<request_queue, submitted, start_pc, worker, thread, ret,
                 active_tests, results, stored, last_dequeue>>
  /\ UNCHANGED nonPoolVars

\* executor.shutdown(wait=True) returns: every work item has ended.
stop_returns ==
  /\ stop_pc = "shutdown_wait"
  /\ \A r \in RequestIds : thread[r] \notin {"pending", "running"}
  /\ stop_pc' = "done"
  /\ UNCHANGED <<request_queue, submitted, running, shutdown_event, start_pc,
                 executor_shutdown, worker, thread, fut_cancelled, ret,
                 active_tests, results, stored, last_dequeue>>
  /\ UNCHANGED nonPoolVars

\* _worker, first step of the task: the loop test, then wait_for(queue.get()).
worker_begin(w) ==
  /\ LoopFree
  /\ worker[w].pc = "created"
  /\ ~worker[w].cancel
  /\ worker' = [worker EXCEPT ![w].pc = LoopTop]
  /\ UNCHANGED <<request_queue, submitted, running, shutdown_event, start_pc,
                 stop_pc, executor_shutdown, thread, fut_cancelled, ret,
                 active_tests, results, stored, last_dequeue>>
  /\ UNCHANGED nonPoolVars

\* _worker: wait_for(queue.get(), 1.0) times out on an empty queue; continue.
worker_get_timeout(w) ==
  /\ LoopFree
  /\ worker[w].pc = "get"
  /\ ~worker[w].cancel
  /\ request_queue = <<>>
  /\ worker' = [worker EXCEPT ![w].pc = LoopTop]
  /\ UNCHANGED <<request_queue, submitted, running, shutdown_event, start_pc,
                 stop_pc, executor_shutdown, thread, fut_cancelled, ret,
                 active_tests, results, stored, last_dequeue>>
  /\ UNCHANGED nonPoolVars

\* _worker: queue.get() returns the heap's first entry; the test is handed to
\* the executor and tracked in active_tests; the worker awaits the future.
\* run_in_executor raises RuntimeError once the executor is shut down, which the
\* worker's `except Exception` logs before going round the loop.
worker_dequeue(w) ==
  /\ LoopFree
  /\ worker[w].pc = "get"
  /\ ~worker[w].cancel
  /\ request_queue # <<>>
  /\ LET entry == HeapPopItem(request_queue)
         r == entry.id
     IN /\ request_queue' = HeapPopRest(request_queue)
        /\ last_dequeue' = [taken |-> r, fifo |-> FifoNext(request_queue).id]
        /\ IF executor_shutdown
           THEN /\ worker' = [worker EXCEPT ![w].pc = LoopTop]
                /\ UNCHANGED <<thread, active_tests>>
           ELSE /\ thread' = [thread EXCEPT ![r] = "pending"]
                /\ active_tests' = active_tests \cup {r}
                /\ worker' = [worker EXCEPT ![w].pc = "await", ![w].req = r]
  /\ UNCHANGED <<submitted, running, shutdown_event, start_pc, stop_pc,
                 executor_shutdown, fut_cancelled, ret, results, stored>>
  /\ UNCHANGED nonPoolVars

\* _worker: `result = await future` returns; store the result, drop the id from
\* active_tests, go round the loop.
worker_store(w) ==
  /\ LoopFree
  /\ worker[w].pc = "await"
  /\ ~worker[w].cancel
  /\ worker[w].req \notin fut_cancelled
  /\ thread[worker[w].req] = "returned"
  /\ LET r == worker[w].req
     IN /\ results' = [results EXCEPT ![r] = ret[r]]
        /\ stored' = [stored EXCEPT ![r] = @ + 1]
        /\ active_tests' = active_tests \ {r}
  /\ worker' = [worker EXCEPT ![w].pc = LoopTop, ![w].req = 0]
  /\ UNCHANGED <<request_queue, submitted, running, shutdown_event, start_pc,
                 stop_pc, executor_shutdown, thread, fut_cancelled, ret,
                 last_dequeue>>
  /\ completion_order' = IF rcta_pc = "idle" THEN completion_order
                         ELSE Append(completion_order, worker[w].req)
  /\ UNCHANGED <<rstVars, perfVars, rctaVars, linkVars, connVars, cmdVars,
                 driverVars, factoryVars>>

\* _worker: `await future` raises what _run_single_test raised; `except
\* Exception` logs it and the loop goes on: nothing is stored, and the id stays
\* in active_tests.
worker_except(w) ==
  /\ LoopFree
  /\ worker[w].pc = "await"
  /\ ~worker[w].cancel
  /\ worker[w].req \notin fut_cancelled
  /\ thread[worker[w].req] = "raised"
  /\ worker' = [worker EXCEPT ![w].pc = LoopTop, ![w].req = 0]
  /\ UNCHANGED <<request_queue, submitted, running, shutdown_event, start_pc,
                 stop_pc, executor_shutdown, thread, fut_cancelled, ret,
                 active_tests, results, stored, last_dequeue>>
  /\ UNCHANGED nonPoolVars

\* _worker: CancelledError at the await the task is suspended in (the task was
\* cancelled by start(), or the awaited future by stop()); break.
worker_cancelled(w) ==
  /\ LoopFree
  /\ \/ worker[w].pc \in {"created", "get", "await"} /\ worker[w].cancel
     \/ worker[w].pc = "await" /\ worker[w].req \in fut_cancelled
  /\ worker' = [worker EXCEPT ![w].pc = "stopped", ![w].req = 0]
  /\ UNCHANGED <<request_queue, submitted, running, shutdown_event, start_pc,
                 stop_pc, executor_shutdown, thread, fut_cancelled, ret,
                 active_tests, results, stored, last_dequeue>>
  /\ UNCHANGED nonPoolVars

\* A pool thread takes the work item: _run_single_test starts, and with it the
\* request's server/client process pair. The pool has max_workers threads.
thread_start(r) ==
  /\ thread[r] = "pending"
  /\ Cardinality(ActivePairs) < max_workers
  /\ thread' = [thread EXCEPT ![r] = "running"]
  /\ UNCHANGED <<request_queue, submitted, running, shutdown_event, start_pc,
                 stop_pc, executor_shutdown, worker, fut_cancelled, ret,
                 active_tests, results, stored, last_dequeue>>
  /\ UNCHANGED nonPoolVars

\* _run_single_test returns its PerfTestResult (lines 250, 307, 377).
thread_return(r, s) ==
  /\ thread[r] = "running"
  /\ thread' = [thread EXCEPT ![r] = "returned"]
  /\ ret' = [ret EXCEPT ![r] = s]
  /\ UNCHANGED <<request_queue, submitted, running, shutdown_event, start_pc,
                 stop_pc, executor_shutdown, worker, fut_cancelled,
                 active_tests, results, stored, last_dequeue>>
  /\ UNCHANGED nonPoolVars

\* _run_single_test raises: the statements outside its try block (building the
\* result, cleaning the outputs, _save_test_logs) are not guarded.
thread_raise(r) ==
  /\ thread[r] = "running"
  /\ thread' = [thread EXCEPT ![r] = "raised"]
  /\ UNCHANGED <<request_queue, submitted, running, shutdown_event, start_pc,
                 stop_pc, executor_shutdown, worker, fut_cancelled, ret,
                 active_tests, results, stored, last_dequeue>>
  /\ UNCHANGED nonPoolVars

\* Every step of the pool but the submissions.
PoolSteps ==
  \/ start
  \/ start_cancel_workers
  \/ start_gathered
  \/ stop
  \/ stop_returns
  \/ \E w \in Workers : worker_begin(w)
  \/ \E w \in Workers : worker_get_timeout(w)
  \/ \E w \in Workers : worker_dequeue(w)
  \/ \E w \in Workers : worker_store(w)
  \/ \E w \in Workers : worker_except(w)
  \/ \E w \in Workers : worker_cancelled(w)
  \/ \E r \in RequestIds : thread_start(r)
  \/ \E r \in RequestIds, s \in PoolStatuses : thread_return(r, s)
  \/ \E r \in RequestIds : thread_raise(r)

\* The pool, with up to MaxRequests submissions.
PoolNext ==
  \/ \E p \in Priorities : submitted < MaxRequests /\ submit_test(p)
  \/ PoolSteps

\* The pool, with up to MaxQueued submissions.
OrderNext ==
  \/ \E p \in Priorities : submitted < MaxQueued /\ submit_test(p)
  \/ PoolSteps

\* ------------------------------------------ AsyncPerfRunner._run_single_test
\* The lines a benchmark process may print.
Lines == {"Test PASS", "Bandwidth 12.5 Gb/s", "latency 3.1 usec",
          "ERROR: port down", "ready"}

\* line.lower()
Lower(line) ==
  CASE line = "Test PASS" -> "test pass"
    [] line = "Bandwidth 12.5 Gb/s" -> "bandwidth 12.5 gb/s"
    [] line = "latency 3.1 usec" -> "latency 3.1 usec"
    [] line = "ERROR: port down" -> "error: port down"
    [] line = "ready" -> "ready"

\* `marker in line_lower`: the marker words of both runners that occur in a
\* lower-cased line.
Occurring(lowered) ==
  CASE lowered = "test pass" -> {}
    [] lowered = "bandwidth 12.5 gb/s" -> {"bandwidth", "gb/s"}
    [] lowered = "latency 3.1 usec" -> {"latency", "usec", "us"}
    [] lowered = "error: port down" -> {"error"}
    [] lowered = "ready" -> {}

In(marker, lowered) == marker \in Occurring(lowered)

\* The exit codes a benchmark process ends with.
ExitCodes == {"0", "1"}

\* `x in list`
Member(x, list) == \E i \in 1..Len(list) : list[i] = x

RECURSIVE SeqsUpTo(_, _)
SeqsUpTo(S, n) ==
  IF n = 0 THEN {<<>>}
  ELSE LET shorter == SeqsUpTo(S, n - 1)
       IN shorter \cup {Append(q, x) : q \in shorter, x \in S}

\* What communicate() may hand back as a process's output.
Outputs == SeqsUpTo(Lines, MaxLines)

\* _analyze_output, the loop over client_output + server_output from line i on.
RECURSIVE AnalyzeLoop(_, _, _)
AnalyzeLoop(lines, i, success_found) ==
  IF i > Len(lines) THEN [failed |-> FALSE, success_found |-> success_found]
  ELSE LET line_lower == Lower(lines[i])
       IN IF \E err \in {"error", "failed", "cannot", "unable"} : In(err, line_lower)
          THEN [failed |-> TRUE, success_found |-> success_found]
          ELSE AnalyzeLoop(lines, i + 1,
                           \/ success_found
                           \/ In("bandwidth", line_lower)
                           \/ In("bw", line_lower)
                           \/ In("latency", line_lower))

\* A variant of _analyze_output that scans the client's output only.
analyze_output_client_only(client_output, server_output, client_rc) ==
  IF client_rc # "0" THEN "failed"
  ELSE LET scan == AnalyzeLoop(client_output, 1, FALSE)
       IN IF scan.failed THEN "failed"
          ELSE IF Member("Test PASS", client_output)
                  /\ Member("Test PASS", server_output) THEN "success"
          ELSE IF scan.success_found THEN "success"
          ELSE "failed"

\* _analyze_output: the status it returns.
analyze_output(client_output, server_output, client_rc) ==
  IF client_rc # "0" THEN "failed"
  ELSE LET scan == AnalyzeLoop(client_output \o server_output, 1, FALSE)
       IN IF scan.failed THEN "failed"
          ELSE IF Member("Test PASS", client_output)
                  /\ Member("Test PASS", server_output) THEN "success"
          ELSE IF scan.success_found THEN "success"
          ELSE "failed"

\* Lines 336-338: the adjustment applied after _analyze_output.
adjust_status(status, client_output, server_output) ==
  IF status = "failed" /\ Member("Test PASS", client_output)
                       /\ Member("Test PASS", server_output)
  THEN "success" ELSE status

\* `proc and proc.poll() is None`. A PerfRunner process is "unread" when it runs
\* without its capture thread (the thread could not be started).
Alive(proc) == proc \in {"running", "unread"}

\* A program run drives its tests with one of the two runners.
OtherRunnerUnused(runner) ==
  IF runner = "AsyncPerfRunner"
  THEN rrc_index = 0 /\ run_pc = "idle" /\ rmt_pc = "unused"
  ELSE pc = "idle"

RstInit ==
  /\ pc = "idle"
  /\ server_process = "None"
  /\ client_process = "None"
  /\ client_returncode = "None"
  /\ signals = <<>>
  /\ result = [status |-> "None", error_message |-> "None",
               client_output |-> <<>>, server_output |-> <<>>]
  /\ analyzed = "None"
  /\ events = {}
  /\ returning = FALSE

\* `except Exception as e:` (lines 344-346): keep the message, go to finally.
Caught ==
  /\ result' = [result EXCEPT !.error_message = "exception"]
  /\ events' = events \cup {"exception"}
  /\ pc' = "finally"

\* A variant of lines 230-253 that goes on to the spawns without a perf_test.
rst_begin_unchecked(perf_test_ok) ==
  /\ pc = "idle"
  /\ OtherRunnerUnused("AsyncPerfRunner")
  /\ result' = [status |-> "error",
                error_message |-> IF perf_test_ok THEN "None" ELSE "not_found",
                client_output |-> <<>>, server_output |-> <<>>]
  /\ pc' = "spawn_server"
  /\ UNCHANGED <<server_process, client_process, client_returncode, signals,
                 analyzed, events, returning>>
  /\ UNCHANGED nonRstVars

\* Lines 230-253: build the result with status 'error'; return it at once when
\* perf_test is missing or not executable.
rst_begin(perf_test_ok) ==
  /\ pc = "idle"
  /\ OtherRunnerUnused("AsyncPerfRunner")
  /\ result' = [status |-> "error",
                error_message |-> IF perf_test_ok THEN "None" ELSE "not_found",
                client_output |-> <<>>, server_output |-> <<>>]
  /\ pc' = IF perf_test_ok THEN "spawn_server" ELSE "returned"
  /\ UNCHANGED <<server_process, client_process, client_returncode, signals,
                 analyzed, events, returning>>
  /\ UNCHANGED nonRstVars

\* Lines 256-273: Popen of the server, or the exception it raises.
rst_spawn_server(raises) ==
  /\ pc = "spawn_server"
  /\ IF raises
     THEN Caught /\ UNCHANGED server_process
     ELSE /\ server_process' = "running"
          /\ pc' = "spawn_client"
          /\ UNCHANGED <<result, events>>
  /\ UNCHANGED <<client_process, client_returncode, signals, analyzed, returning>>
  /\ UNCHANGED nonRstVars

\* Lines 275-289: Popen of the client, or the exception it raises.
rst_spawn_client(raises) ==
  /\ pc = "spawn_client"
  /\ IF raises
     THEN Caught /\ UNCHANGED client_process
     ELSE /\ client_process' = "running"
          /\ pc' = "client_communicate"
          /\ UNCHANGED <<result, events>>
  /\ UNCHANGED <<server_process, client_returncode, signals, analyzed, returning>>
  /\ UNCHANGED nonRstVars

\* The server process ends by itself.
server_exits ==
  /\ pc \notin {"idle", "returned", "raised"}
  /\ Alive(server_process)
  /\ server_process' = "exited"
  /\ UNCHANGED <<pc, client_process, client_returncode, signals, result,
                 analyzed, events, returning>>
  /\ UNCHANGED nonRstVars

\* Lines 293-294: the client ends within request.timeout; keep its output.
rst_client_completes(rc, out) ==
  /\ pc = "client_communicate"
  /\ client_process' = "exited"
  /\ client_returncode' = rc
  /\ result' = [result EXCEPT !.client_output = out]
  /\ events' = events \cup {"client_completed"}
  /\ pc' = "server_ready"
  /\ UNCHANGED <<server_process, signals, analyzed, returning>>
  /\ UNCHANGED nonRstVars

\* The signal of the timeout handler (line 326).
TimeoutSignal_graceful == "SIGTERM"

TimeoutSignal == "SIGKILL"

\* os.killpg(pgid, sig) on a live process group: SIGKILL ends it; SIGTERM ends
\* it unless the process ignores the signal.
AfterSignal(proc, sig) ==
  IF ~Alive(proc) THEN {proc}
  ELSE IF sig = "SIGKILL" THEN {"killed"}
  ELSE {"exited", "running"}

\* Lines 319-326: communicate raises TimeoutExpired; status 'timeout'; kill the
\* client and the server if they are still running.
rst_client_timeout ==
  /\ pc = "client_communicate"
  /\ result' = [result EXCEPT !.status = "timeout", !.error_message = "timeout"]
  /\ events' = events \cup {"timed_out"}
  /\ signals' = signals
                \o (IF Alive(client_process)
                    THEN <<(<<"client", TimeoutSignal>>)>> ELSE <<>>)
                \o (IF Alive(server_process)
                    THEN <<(<<"server", TimeoutSignal>>)>> ELSE <<>>)
  /\ client_process' \in AfterSignal(client_process, TimeoutSignal)
  /\ server_process' \in AfterSignal(server_process, TimeoutSignal)
  /\ pc' = "analyze"
  /\ UNCHANGED <<client_returncode, analyzed, returning>>
  /\ UNCHANGED nonRstVars

\* communicate of the client raises something else than TimeoutExpired.
rst_client_raises ==
  /\ pc = "client_communicate"
  /\ Caught
  /\ UNCHANGED <<server_process, client_process, client_returncode, signals,
                 analyzed, returning>>
  /\ UNCHANGED nonRstVars

\* Lines 296-307: the readiness loop. A server still running at the first poll
\* is ready; one that has ended stays so for the ten polls, and the test
\* returns 'failed'.
rst_server_ready ==
  /\ pc = "server_ready"
  /\ IF Alive(server_process)
     THEN /\ pc' = "poll_server"
          /\ UNCHANGED <<result, returning>>
     ELSE /\ result' = [result EXCEPT !.status = "failed",
                                      !.error_message = "server_not_ready"]
          /\ returning' = TRUE
          /\ pc' = "finally"
  /\ UNCHANGED <<server_process, client_process, client_returncode, signals,
                 analyzed, events>>
  /\ UNCHANGED nonRstVars

\* Line 310: `if server_process.poll() is None`, then the two seconds' sleep.
rst_poll_server ==
  /\ pc = "poll_server"
  /\ pc' = IF Alive(server_process) THEN "sigterm" ELSE "analyze"
  /\ UNCHANGED <<server_process, client_process, client_returncode, signals,
                 result, analyzed, events, returning>>
  /\ UNCHANGED nonRstVars

\* A variant of line 312 that kills the server's process group at once.
rst_sigterm_server_kill ==
  /\ pc = "sigterm"
  /\ signals' = Append(signals, <<"server", "SIGKILL">>)
  /\ server_process' = "killed"
  /\ pc' = "analyze"
  /\ UNCHANGED <<client_process, client_returncode, result, analyzed, events,
                 returning>>
  /\ UNCHANGED nonRstVars

\* Line 312: SIGTERM to the server's process group.
rst_sigterm_server ==
  /\ pc = "sigterm"
  /\ signals' = Append(signals, <<"server", "SIGTERM">>)
  /\ pc' = "server_communicate"
  /\ UNCHANGED <<server_process, client_process, client_returncode, result,
                 analyzed, events, returning>>
  /\ UNCHANGED nonRstVars

\* Lines 314-315: the server ends within five seconds; keep its output.
rst_server_completes(out) ==
  /\ pc = "server_communicate"
  /\ server_process' = "exited"
  /\ result' = [result EXCEPT !.server_output = out]
  /\ pc' = "analyze"
  /\ UNCHANGED <<client_process, client_returncode, signals, analyzed, events,
                 returning>>
  /\ UNCHANGED nonRstVars

\* Lines 316-317: the server has not ended after five seconds; SIGKILL.
rst_server_kill ==
  /\ pc = "server_communicate"
  /\ Alive(server_process)
  /\ signals' = Append(signals, <<"server", "SIGKILL">>)
  /\ server_process' = "killed"
  /\ pc' = "analyze"
  /\ UNCHANGED <<client_process, client_returncode, result, analyzed, events,
                 returning>>
  /\ UNCHANGED nonRstVars

\* communicate of the server raises something else than TimeoutExpired.
rst_server_raises ==
  /\ pc = "server_communicate"
  /\ Caught
  /\ UNCHANGED <<server_process, client_process, client_returncode, signals,
                 analyzed, returning>>
  /\ UNCHANGED nonRstVars

\* Line 329: whether the classification is applied.
ClassifierApplies_always == TRUE

ClassifierApplies == result.status # "timeout"

\* Lines 328-342: _analyze_output and the 'Test PASS' adjustment.
rst_analyze ==
  /\ pc = "analyze"
  /\ IF ClassifierApplies
     THEN LET st == analyze_output(result.client_output, result.server_output,
                                   IF client_process # "None"
                                   THEN client_returncode ELSE "-1")
          IN /\ analyzed' = st
             /\ result' = [result EXCEPT !.status =
                             adjust_status(st, result.client_output,
                                           result.server_output)]
             /\ events' = events \cup {"classified"}
     ELSE UNCHANGED <<analyzed, result, events>>
  /\ pc' = "finally"
  /\ UNCHANGED <<server_process, client_process, client_returncode, signals,
                 returning>>
  /\ UNCHANGED nonRstVars

\* Lines 348-355, what the finally block sends to a process still running.
FinallySignals_none(proc, name) == <<>>

FinallySignals(proc, name) ==
  IF Alive(proc) THEN <<(<<name, "SIGKILL">>)>> ELSE <<>>

\* Lines 348-355: SIGKILL to every process still running, then either the
\* pending return or the statements after the try block.
rst_finally ==
  /\ pc = "finally"
  /\ LET ks == FinallySignals(server_process, "server")
         kc == FinallySignals(client_process, "client")
     IN /\ signals' = signals \o ks \o kc
        /\ server_process' = IF ks # <<>> THEN "killed" ELSE server_process
        /\ client_process' = IF kc # <<>> THEN "killed" ELSE client_process
  /\ pc' = IF returning THEN "returned" ELSE "save_logs"
  /\ UNCHANGED <<client_returncode, result, analyzed, events, returning>>
  /\ UNCHANGED nonRstVars

\* Lines 357-377: end time, cleaned outputs, _save_test_logs, return; or the
\* exception one of these raises, which nothing in _run_single_test catches.
rst_save_logs(raises) ==
  /\ pc = "save_logs"
  /\ pc' = IF raises THEN "raised" ELSE "returned"
  /\ UNCHANGED <<server_process, client_process, client_returncode, signals,
                 result, analyzed, events, returning>>
  /\ UNCHANGED nonRstVars

RstNext ==
  \/ \E ok \in BOOLEAN : rst_begin(ok)
  \/ \E raises \in BOOLEAN : rst_spawn_server(raises)
  \/ \E raises \in BOOLEAN : rst_spawn_client(raises)
  \/ server_exits
  \/ \E rc \in ExitCodes, out \in Outputs : rst_client_completes(rc, out)
  \/ rst_client_timeout
  \/ rst_client_raises
  \/ rst_server_ready
  \/ rst_poll_server
  \/ rst_sigterm_server
  \/ \E out \in Outputs : rst_server_completes(out)
  \/ rst_server_kill
  \/ rst_server_raises
  \/ rst_analyze
  \/ rst_finally
  \/ \E raises \in BOOLEAN : rst_save_logs(raises)

\* ----------------------------------------------------------------- PerfRunner
\* What a benchmark process prints during one PerfRunner test.
PerfTranscripts == {<<"Bandwidth 12.5 Gb/s">>, <<"ERROR: port down">>}

PerfInit ==
  /\ run_pc = "idle"
  /\ run_result = "False"
  /\ self_server_process = "None"
  /\ self_client_process = "None"
  /\ self_client_returncode = "None"
  /\ self_server_output = <<>>
  /\ self_client_output = <<>>
  /\ self_test_success = FALSE
  /\ own_server_output = <<>>
  /\ own_client_output = <<>>
  /\ own_at_analysis = [server |-> <<>>, client |-> <<>>]
  /\ rrc_index = 0
  /\ rrc_results = <<>>
  /\ rrc_counts = [success |-> 0, failure |-> 0, error |-> 0]

\* RealRunConnection, lines 52-108: one connection of the loop, up to the call
\* of perf_runner.run(). A connection without a device, or a missing perf_test,
\* counts as an error and the loop goes on.
rrc_connection(kind) ==
  /\ run_pc = "idle"
  /\ OtherRunnerUnused("PerfRunner")
  /\ rmt_pc = "unused"
  /\ rrc_index < MaxConnections
  /\ IF kind = "run"
     THEN /\ run_pc' = "begin"
          /\ own_server_output' = <<>>
          /\ own_client_output' = <<>>
          /\ rrc_ran' = rrc_ran + 1
          /\ UNCHANGED <<rrc_index, rrc_counts>>
     ELSE /\ rrc_index' = rrc_index + 1
          /\ rrc_counts' = [rrc_counts EXCEPT !.error = @ + 1]
          /\ UNCHANGED <<run_pc, own_server_output, own_client_output, rrc_ran>>
  /\ UNCHANGED <<run_result, self_server_process, self_client_process,
                 self_client_returncode, self_server_output, self_client_output,
                 self_test_success, own_at_analysis, rrc_results>>
  /\ UNCHANGED <<rrc_summary, rmt_pc, rmt_index, rmt_results, rmt_counts,
                 rmt_ran, rmt_summary>>
  /\ UNCHANGED nonDriverVars

\* run(), lines 306-309: perf_test must exist.
run_begin(exists) ==
  /\ run_pc = "begin"
  /\ IF exists
     THEN run_pc' = "start_server" /\ UNCHANGED run_result
     ELSE run_pc' = "finally" /\ run_result' = "False"
  /\ UNCHANGED <<self_server_process, self_client_process,
                 self_client_returncode, self_server_output, self_client_output,
                 self_test_success, own_server_output, own_client_output,
                 own_at_analysis, rrc_index, rrc_results, rrc_counts>>
  /\ UNCHANGED nonPerfVars

\* start_server (lines 140-167) and run()'s use of it (lines 312-313). Popen
\* may raise, and so may the start of the capture thread once the process runs.
run_start_server(outcome) ==
  /\ run_pc = "start_server"
  /\ self_server_process' = CASE outcome = "popen_raises" -> self_server_process
                              [] outcome = "thread_raises" -> "unread"
                              [] outcome = "ok" -> "running"
  /\ IF outcome = "ok"
     THEN run_pc' = "start_client" /\ UNCHANGED run_result
     ELSE run_pc' = "finally" /\ run_result' = "False"
  /\ UNCHANGED <<self_client_process, self_client_returncode,
                 self_server_output, self_client_output, self_test_success,
                 own_server_output, own_client_output, own_at_analysis,
                 rrc_index, rrc_results, rrc_counts>>
  /\ UNCHANGED nonPerfVars

\* start_client (lines 169-193) and run()'s use of it (lines 316-318).
run_start_client(outcome) ==
  /\ run_pc = "start_client"
  /\ self_client_process' = CASE outcome = "popen_raises" -> self_client_process
                              [] outcome = "thread_raises" -> "unread"
                              [] outcome = "ok" -> "running"
  /\ self_client_returncode' = IF outcome = "popen_raises"
                               THEN self_client_returncode ELSE "None"
  /\ IF outcome = "ok"
     THEN run_pc' = "wait" /\ UNCHANGED run_result
     ELSE run_pc' = "cleanup" /\ run_result' = "False"
  /\ UNCHANGED <<self_server_process, self_server_output, self_client_output,
                 self_test_success, own_server_output, own_client_output,
                 own_at_analysis, rrc_index, rrc_results, rrc_counts>>
  /\ UNCHANGED nonPerfVars

\* Between its start and the end of run(), a process may print and may end.
InRun == run_pc \in {"start_client", "wait", "analyze", "save_logs", "cleanup", "finally"}

\* capture_output: the server's lines are appended to self.server_output.
perf_server_prints(t) ==
  /\ InRun
  /\ self_server_process = "running"
  /\ own_server_output = <<>>
  /\ own_server_output' = t
  /\ self_server_output' = self_server_output \o t
  /\ UNCHANGED <<run_pc, run_result, self_server_process, self_client_process,
                 self_client_returncode, self_client_output, self_test_success,
                 own_client_output, own_at_analysis, rrc_index, rrc_results,
                 rrc_counts>>
  /\ UNCHANGED nonPerfVars

\* capture_output: the client's lines are appended to self.client_output.
perf_client_prints(t) ==
  /\ InRun
  /\ self_client_process = "running"
  /\ own_client_output = <<>>
  /\ own_client_output' = t
  /\ self_client_output' = self_client_output \o t
  /\ UNCHANGED <<run_pc, run_result, self_server_process, self_client_process,
                 self_client_returncode, self_server_output, self_test_success,
                 own_server_output, own_at_analysis, rrc_index, rrc_results,
                 rrc_counts>>
  /\ UNCHANGED nonPerfVars

\* The server process ends by itself.
perf_server_exits ==
  /\ InRun
  /\ Alive(self_server_process)
  /\ self_server_process' = "exited"
  /\ UNCHANGED <<run_pc, run_result, self_client_process,
                 self_client_returncode, self_server_output, self_client_output,
                 self_test_success, own_server_output, own_client_output,
                 own_at_analysis, rrc_index, rrc_results, rrc_counts>>
  /\ UNCHANGED nonPerfVars

\* The client process ends by itself, with exit code rc.
perf_client_exits(rc) ==
  /\ InRun
  /\ Alive(self_client_process)
  /\ self_client_process' = "exited"
  /\ self_client_returncode' = rc
  /\ UNCHANGED <<run_pc, run_result, self_server_process, self_server_output,
                 self_client_output, self_test_success, own_server_output,
                 own_client_output, own_at_analysis, rrc_index, rrc_results,
                 rrc_counts>>
  /\ UNCHANGED nonPerfVars

\* run_wait with a timeout that is not a failure.
run_wait_lenient(completed) ==
  /\ run_pc = "wait"
  /\ completed => self_client_process = "exited"
  /\ IF completed
     THEN run_pc' = "analyze" /\ UNCHANGED run_result
     ELSE run_pc' = "cleanup" /\ run_result' = "True"
  /\ UNCHANGED <<self_server_process, self_client_process,
                 self_client_returncode, self_server_output, self_client_output,
                 self_test_success, own_server_output, own_client_output,
                 own_at_analysis, rrc_index, rrc_results, rrc_counts>>
  /\ UNCHANGED nonPerfVars

\* wait_for_completion (lines 195-214) and run()'s use of it (lines 321-323):
\* True once a poll finds the client ended, False when the timeout elapses.
run_wait(completed) ==
  /\ run_pc = "wait"
  /\ completed => self_client_process = "exited"
  /\ IF completed
     THEN run_pc' = "analyze" /\ UNCHANGED run_result
     ELSE run_pc' = "cleanup" /\ run_result' = "False"
  /\ UNCHANGED <<self_server_process, self_client_process,
                 self_client_returncode, self_server_output, self_client_output,
                 self_test_success, own_server_output, own_client_output,
                 own_at_analysis, rrc_index, rrc_results, rrc_counts>>
  /\ UNCHANGED nonPerfVars

\* analyze_results on the client's output alone.
analyze_verdict_client_only(client_rc, server_output, client_output) ==
  LET error_patterns == {"error", "failed", "cannot", "unable", "timeout", "refused"}
      success_patterns == {"bandwidth", "latency", "completed", "success", "mbps",
                           "gbps", "usec"}
      all == client_output
      errors_found == {i \in 1..Len(all) :
                         \E pat \in error_patterns : In(pat, Lower(all[i]))}
      success_indicators == {i \in 1..Len(all) :
                               \E pat \in success_patterns : In(pat, Lower(all[i]))}
  IN client_rc = "0" /\ errors_found = {} /\ success_indicators # {}

\* analyze_results, the decision of lines 247-266 on given outputs.
analyze_verdict(client_rc, server_output, client_output) ==
  LET error_patterns == {"error", "failed", "cannot", "unable", "timeout", "refused"}
      success_patterns == {"bandwidth", "latency", "completed", "success", "mbps",
                           "gbps", "usec"}
      all == server_output \o client_output
      errors_found == {i \in 1..Len(all) :
                         \E pat \in error_patterns : In(pat, Lower(all[i]))}
      success_indicators == {i \in 1..Len(all) :
                               \E pat \in success_patterns : In(pat, Lower(all[i]))}
  IN client_rc = "0" /\ errors_found = {} /\ success_indicators # {}

\* analyze_results (lines 216-285), on the instance's output lists.
run_analyze ==
  /\ run_pc = "analyze"
  /\ self_test_success' = analyze_verdict(
                            IF self_client_process # "None"
                            THEN self_client_returncode ELSE "-1",
                            self_server_output, self_client_output)
  /\ own_at_analysis' = [server |-> own_server_output, client |-> own_client_output]
  /\ run_pc' = "save_logs"
  /\ UNCHANGED <<run_result, self_server_process, self_client_process,
                 self_client_returncode, self_server_output, self_client_output,
                 own_server_output, own_client_output, rrc_index, rrc_results,
                 rrc_counts>>
  /\ UNCHANGED nonPerfVars

\* save_logs (lines 339-356) and `return self.test_success`; an exception of
\* save_logs leaves run() through its finally block.
run_save_logs(raises) ==
  /\ run_pc = "save_logs"
  /\ run_result' = IF raises THEN "raised"
                   ELSE IF self_test_success THEN "True" ELSE "False"
  /\ run_pc' = "finally"
  /\ UNCHANGED <<self_server_process, self_client_process,
                 self_client_returncode, self_server_output, self_client_output,
                 self_test_success, own_server_output, own_client_output,
                 own_at_analysis, rrc_index, rrc_results, rrc_counts>>
  /\ UNCHANGED nonPerfVars

\* cleanup (lines 287-301) on one process: SIGTERM and a wait of five seconds,
\* SIGKILL when the wait raises.
CleanupOutcomes_sigterm_only(proc) ==
  IF Alive(proc) THEN {"exited", proc} ELSE {proc}

CleanupOutcomes(proc) ==
  IF Alive(proc) THEN {"exited", "killed"} ELSE {proc}

\* self.cleanup() called by run() before `return False` (lines 317, 322).
run_cleanup ==
  /\ run_pc = "cleanup"
  /\ self_server_process' \in CleanupOutcomes(self_server_process)
  /\ self_client_process' \in CleanupOutcomes(self_client_process)
  /\ run_pc' = "finally"
  /\ UNCHANGED <<run_result, self_client_returncode, self_server_output,
                 self_client_output, self_test_success, own_server_output,
                 own_client_output, own_at_analysis, rrc_index, rrc_results,
                 rrc_counts>>
  /\ UNCHANGED nonPerfVars

\* run()'s finally block (lines 336-337): self.cleanup(), then run() is left.
run_finally ==
  /\ run_pc = "finally"
  /\ self_server_process' \in CleanupOutcomes(self_server_process)
  /\ self_client_process' \in CleanupOutcomes(self_client_process)
  /\ run_pc' = "returned"
  /\ UNCHANGED <<run_result, self_client_returncode, self_server_output,
                 self_client_output, self_test_success, own_server_output,
                 own_client_output, own_at_analysis, rrc_index, rrc_results,
                 rrc_counts>>
  /\ UNCHANGED nonPerfVars

\* rrc_record without an entry for a test that did not succeed.
rrc_record_successes ==
  /\ run_pc = "returned"
  /\ rmt_pc = "unused"
  /\ LET status == IF run_result = "raised" THEN "error"
                   ELSE IF run_result = "True" THEN "success" ELSE "failed"
     IN /\ rrc_results' = IF status = "success"
                          THEN Append(rrc_results, status) ELSE rrc_results
        /\ rrc_counts' = IF status = "success"
                         THEN [rrc_counts EXCEPT !.success = @ + 1]
                         ELSE IF status = "failed"
                         THEN [rrc_counts EXCEPT !.failure = @ + 1]
                         ELSE [rrc_counts EXCEPT !.error = @ + 1]
  /\ rrc_index' = rrc_index + 1
  /\ run_pc' = "idle"
  /\ UNCHANGED <<run_result, self_server_process, self_client_process,
                 self_client_returncode, self_server_output, self_client_output,
                 self_test_success, own_server_output, own_client_output,
                 own_at_analysis>>
  /\ UNCHANGED nonPerfVars

\* RealRunConnection, lines 108-132: record the status of the connection.
rrc_record ==
  /\ run_pc = "returned"
  /\ rmt_pc = "unused"
  /\ LET status == IF run_result = "raised" THEN "error"
                   ELSE IF run_result = "True" THEN "success" ELSE "failed"
     IN /\ rrc_results' = Append(rrc_results, status)
        /\ rrc_counts' = IF status = "success"
                         THEN [rrc_counts EXCEPT !.success = @ + 1]
                         ELSE IF status = "failed"
                         THEN [rrc_counts EXCEPT !.failure = @ + 1]
                         ELSE [rrc_counts EXCEPT !.error = @ + 1]
  /\ rrc_index' = rrc_index + 1
  /\ run_pc' = "idle"
  /\ UNCHANGED <<run_result, self_server_process, self_client_process,
                 self_client_returncode, self_server_output, self_client_output,
                 self_test_success, own_server_output, own_client_output,
                 own_at_analysis>>
  /\ UNCHANGED nonPerfVars

\* ------------------------------------------- PerfRunner.run_multiple_tests
\* What a driver of PerfRunner.run leaves alone of the runner when it neither
\* starts a run nor takes its result.
runnerState == <<run_result, self_server_process, self_client_process,
                 self_client_returncode, self_server_output,
                 self_client_output, self_test_success, own_at_analysis>>

NoSummary == [produced |-> FALSE, total |-> 0, success |-> 0, failure |-> 0,
              error |-> 0, details |-> <<>>]

DriverInit ==
  /\ rrc_ran = 0
  /\ rrc_summary = NoSummary
  /\ rmt_pc = "unused"
  /\ rmt_index = 0
  /\ rmt_results = <<>>
  /\ rmt_counts = [success |-> 0, failure |-> 0, error |-> 0]
  /\ rmt_ran = 0
  /\ rmt_summary = NoSummary

\* RealRunConnection, lines 134-150: the loop is over, the summary is returned.
\* The list had as many connections as the loop has dealt with.
rrc_return ==
  /\ run_pc = "idle"
  /\ OtherRunnerUnused("PerfRunner")
  /\ rmt_pc = "unused"
  /\ run_pc' = "done"
  /\ rrc_summary' = [produced |-> TRUE, total |-> rrc_index,
                     success |-> rrc_counts.success,
                     failure |-> rrc_counts.failure,
                     error |-> rrc_counts.error, details |-> rrc_results]
  /\ UNCHANGED <<runnerState, own_server_output, own_client_output, rrc_index,
                 rrc_results, rrc_counts>>
  /\ UNCHANGED <<rrc_ran, rmt_pc, rmt_index, rmt_results, rmt_counts, rmt_ran,
                 rmt_summary>>
  /\ UNCHANGED nonDriverVars

\* run_multiple_tests, lines 380-412: one connection of the loop, up to the
\* call of self.run(). A connection without a source or a destination, or
\* whose source has no GID, counts as an error and the loop goes on.
rmt_connection(kind) ==
  /\ run_pc = "idle"
  /\ OtherRunnerUnused("PerfRunner")
  /\ rrc_index = 0
  /\ rmt_pc \in {"unused", "looping"}
  /\ rmt_index < MaxConnections
  /\ rmt_pc' = "looping"
  /\ IF kind = "run"
     THEN /\ run_pc' = "begin"
          /\ own_server_output' = <<>>
          /\ own_client_output' = <<>>
          /\ rmt_ran' = rmt_ran + 1
          /\ UNCHANGED <<rmt_index, rmt_counts>>
     ELSE /\ rmt_index' = rmt_index + 1
          /\ rmt_counts' = [rmt_counts EXCEPT !.error = @ + 1]
          /\ UNCHANGED <<run_pc, own_server_output, own_client_output, rmt_ran>>
  /\ UNCHANGED <<runnerState, rrc_index, rrc_results, rrc_counts>>
  /\ UNCHANGED <<rrc_ran, rrc_summary, rmt_results, rmt_summary>>
  /\ UNCHANGED nonDriverVars

\* run_multiple_tests, lines 412-428: the result of self.run(). A true result
\* is a success with an entry in results; any other result is counted as an
\* error. An exception of run() is caught nowhere and ends the call.
rmt_record ==
  /\ run_pc = "returned"
  /\ rmt_pc = "looping"
  /\ IF run_result = "raised"
     THEN /\ rmt_pc' = "raised"
          /\ run_pc' = "done"
          /\ UNCHANGED <<rmt_index, rmt_results, rmt_counts>>
     ELSE /\ rmt_index' = rmt_index + 1
          /\ run_pc' = "idle"
          /\ rmt_pc' = "looping"
          /\ IF run_result = "True"
             THEN /\ rmt_results' = Append(rmt_results, "success")
                  /\ rmt_counts' = [rmt_counts EXCEPT !.success = @ + 1]
             ELSE /\ rmt_results' = rmt_results
                  /\ rmt_counts' = [rmt_counts EXCEPT !.error = @ + 1]
  /\ UNCHANGED <<runnerState, own_server_output, own_client_output, rrc_index,
                 rrc_results, rrc_counts>>
  /\ UNCHANGED <<rrc_ran, rrc_summary, rmt_ran, rmt_summary>>
  /\ UNCHANGED nonDriverVars

\* run_multiple_tests, lines 430-447: the loop is over, the summary is
\* returned.
rmt_return ==
  /\ run_pc = "idle"
  /\ OtherRunnerUnused("PerfRunner")
  /\ rrc_index = 0
  /\ rmt_pc \in {"unused", "looping"}
  /\ run_pc' = "done"
  /\ rmt_pc' = "returned"
  /\ rmt_summary' = [produced |-> TRUE, total |-> rmt_index,
                     success |-> rmt_counts.success,
                     failure |-> rmt_counts.failure,
                     error |-> rmt_counts.error, details |-> rmt_results]
  /\ UNCHANGED <<runnerState, own_server_output, own_client_output, rrc_index,
                 rrc_results, rrc_counts>>
  /\ UNCHANGED <<rrc_ran, rrc_summary, rmt_index, rmt_results, rmt_counts,
                 rmt_ran>>
  /\ UNCHANGED nonDriverVars

PerfNext ==
  \/ \E kind \in {"run", "no_device", "no_perf_test"} : rrc_connection(kind)
  \/ \E exists \in BOOLEAN : run_begin(exists)
  \/ \E o \in {"ok", "popen_raises", "thread_raises"} : run_start_server(o)
  \/ \E o \in {"ok", "popen_raises", "thread_raises"} : run_start_client(o)
  \/ \E t \in PerfTranscripts : perf_server_prints(t)
  \/ \E t \in PerfTranscripts : perf_client_prints(t)
  \/ perf_server_exits
  \/ \E rc \in ExitCodes : perf_client_exits(rc)
  \/ \E completed \in BOOLEAN : run_wait(completed)
  \/ run_analyze
  \/ \E raises \in BOOLEAN : run_save_logs(raises)
  \/ run_cleanup
  \/ run_finally
  \/ rrc_record
  \/ rrc_return
  \/ \E kind \in {"run", "no_device", "no_gid"} : rmt_connection(kind)
  \/ rmt_record
  \/ rmt_return

\* ------------------------------------------------ run_connection_tests_async
RctaInit ==
  /\ rcta_pc = "idle"
  /\ rcta_total = 0
  /\ rcta_next = 0
  /\ rcta_results = <<>>
  /\ rcta_summary = [produced |-> FALSE, total |-> 0, submitted |-> 0,
                     completed |-> 0, success |-> 0, failed |-> 0,
                     timeout |-> 0, error |-> 0, details |-> <<>>]
  /\ rcta_aborted = FALSE
  /\ completion_order = <<>>

\* Lines 532-542: a call with n connections; the runner is created and
\* runner.start() becomes a task, which first runs when the call first waits.
rcta_begin(n) ==
  /\ rcta_pc = "idle"
  /\ submitted = 0
  /\ start_pc = "not_started"
  /\ stop_pc = "idle"
  /\ rcta_total' = n
  /\ rcta_pc' = "submit"
  /\ UNCHANGED <<rcta_next, rcta_results, rcta_summary, rcta_aborted>>
  /\ UNCHANGED nonRctaVars

\* Lines 544-560: every connection has been submitted; wait for the results.
rcta_submitted ==
  /\ rcta_pc = "submit"
  /\ submitted = rcta_total
  /\ rcta_next' = 1
  /\ rcta_pc' = "collect"
  /\ UNCHANGED <<rcta_total, rcta_results, rcta_summary, rcta_aborted>>
  /\ UNCHANGED nonRctaVars

\* Lines 561-564 with get_result (149-167): the result of the next request id
\* is appended once it is in self.results; None comes back, and nothing is
\* appended, when 600 seconds have passed without it.
rcta_get_result ==
  /\ rcta_pc = "collect"
  /\ rcta_next <= rcta_total
  /\ rcta_results' = IF results[rcta_next] # "none"
                     THEN Append(rcta_results, rcta_next) ELSE rcta_results
  /\ rcta_next' = rcta_next + 1
  /\ UNCHANGED <<rcta_pc, rcta_total, rcta_summary, rcta_aborted>>
  /\ UNCHANGED nonRctaVars

\* sum(1 for r in results if r.status == status)
CountStatus(status) ==
  Cardinality({i \in 1..Len(rcta_results) : results[rcta_results[i]] = status})

\* Lines 566-596: the summary and the details, in the order of `results`.
rcta_summary_built ==
  /\ rcta_pc = "collect"
  /\ rcta_next > rcta_total
  /\ rcta_summary' = [produced |-> TRUE,
                      total |-> rcta_total,
                      submitted |-> submitted,
                      completed |-> Len(rcta_results),
                      success |-> CountStatus("success"),
                      failed |-> CountStatus("failed"),
                      timeout |-> CountStatus("timeout"),
                      error |-> CountStatus("error"),
                      details |-> [i \in 1..Len(rcta_results) |->
                                    [request_id |-> rcta_results[i],
                                     status |-> results[rcta_results[i]]]]]
  /\ rcta_pc' = "finally"
  /\ UNCHANGED <<rcta_total, rcta_next, rcta_results, rcta_aborted>>
  /\ UNCHANGED nonRctaVars

\* The call is cancelled (an interrupt of the program, a cancel of its task)
\* while it sleeps in get_result: the exception goes through the finally block.
rcta_abort ==
  /\ rcta_pc = "collect"
  /\ rcta_next <= rcta_total
  /\ results[rcta_next] = "none"
  /\ rcta_aborted' = TRUE
  /\ rcta_pc' = "finally"
  /\ UNCHANGED <<rcta_total, rcta_next, rcta_results, rcta_summary>>
  /\ UNCHANGED nonRctaVars

\* Lines 598-605, after runner.stop() has returned: the runner task is
\* cancelled and awaited, and the call ends.
rcta_finish ==
  /\ rcta_pc = "finally"
  /\ stop_pc = "done"
  /\ rcta_pc' = "done"
  /\ UNCHANGED <<rcta_total, rcta_next, rcta_results, rcta_summary, rcta_aborted>>
  /\ UNCHANGED nonRctaVars

\* The other tasks of the loop run while the call is suspended: in the sleep
\* of get_result, or once it is over.
LoopYielded == rcta_pc \in {"collect", "done"}

\* run_connection_tests_async with the runner it creates. The requests carry
\* the default priority 0; stop() is called by the finally block only, and the
\* runner task is cancelled before start() gets to cancel the workers.
RctaNext ==
  \/ \E n \in 1..MaxRequests : rcta_begin(n)
  \/ rcta_pc = "submit" /\ submitted < rcta_total /\ submit_test(0)
  \/ rcta_submitted
  \/ rcta_pc = "collect" /\ start
  \/ rcta_get_result
  \/ rcta_summary_built
  \/ rcta_abort
  \/ rcta_pc = "finally" /\ stop
  \/ stop_returns
  \/ rcta_finish
  \/ \E w \in Workers : LoopYielded /\ worker_begin(w)
  \/ \E w \in Workers : LoopYielded /\ worker_get_timeout(w)
  \/ \E w \in Workers : LoopYielded /\ worker_dequeue(w)
  \/ \E w \in Workers : LoopYielded /\ worker_store(w)
  \/ \E w \in Workers : LoopYielded /\ worker_except(w)
  \/ \E r \in RequestIds : thread_start(r)
  \/ \E r \in RequestIds, s \in PoolStatuses : thread_return(r, s)
  \/ \E r \in RequestIds : thread_raise(r)

\* ------------------------------------------------------- connectivity file
\* A line of the file is its separator and the words between the separators;
\* an empty word stands for two separators in a row. "#" is a word that
\* begins with '#', "x" a word that is no integer.
Seps == {"\t", " "}

WordSeqs ==
  { <<"0", "1", "1", "1">>, <<"1", "0", "0", "1">>, <<"1", "0", "1", "1">>,
    <<"0", "1", "2", "1">>, <<"0", "", "1", "1", "1">>, <<"0", "x", "1", "1">>,
    <<"0", "1">>, <<"#", "x">>, <<>> }

FileLines == [sep : Seps, words : WordSeqs]

SeqsOf(S, n) == UNION {[1..k -> S] : k \in 0..n}

Files == SeqsOf(FileLines, MaxFileLines)

\* str(n) for the integers of the model, and int() of a field: a field is the
\* sequence of the words it holds, and int() takes one word of digits only.
Digits == <<"0", "1", "2">>

IsInt(field) ==
  /\ Len(field) = 1
  /\ \E n \in 1..Len(Digits) : Digits[n] = field[1]

int(field) == (CHOOSE n \in 1..Len(Digits) : Digits[n] = field[1]) - 1

NonEmpty(field) == field # <<>>

\* csv.reader(f, delimiter='\t', skipinitialspace=True): the fields of a row
\* are what stands between two tabs, spaces included.
csv_reader(line) ==
  IF line.words = <<>> THEN <<>>
  ELSE IF line.sep = "\t"
       THEN [i \in 1..Len(line.words) |->
               IF line.words[i] = "" THEN <<>> ELSE <<line.words[i]>>]
       ELSE <<line.words>>

Connection(sm, sp, dm, dp) ==
  [source |-> [module_id |-> sm, port |-> sp],
   destination |-> [module_id |-> dm, port |-> dp]]

\* The body of the loop of GaudiRouting.parse_connectivity_file for one row:
\* the connections it appends.
ParseRow(row) ==
  IF row = <<>> \/ (row[1] # <<>> /\ row[1][1] = "#")
  THEN <<>>
  ELSE LET items == SelectSeq(row, NonEmpty)
       IN IF Len(items) >= 4 /\ \A i \in 1..4 : IsInt(items[i])
          THEN <<Connection(int(items[1]), int(items[2]),
                            int(items[3]), int(items[4]))>>
          ELSE <<>>

RECURSIVE ParseRows(_)
ParseRows(text) ==
  IF text = <<>> THEN <<>>
  ELSE ParseRow(csv_reader(Head(text))) \o ParseRows(Tail(text))

\* gaudi_connect: line.strip().split() gives the words between runs of
\* whitespace, spaces and tabs alike.
NonEmptyWord(word) == word # ""

split(line) == SelectSeq(line.words, NonEmptyWord)

FlatConnection(sm, sp, dm, dp) ==
  [source_module_id |-> sm, source_port |-> sp,
   destination_module_id |-> dm, destination_port |-> dp]

GcParseLine(line) ==
  LET parts == split(line)
  IN IF parts = <<>> \/ parts[1] = "#"
     THEN <<>>
     ELSE IF Len(parts) >= 4 /\ \A i \in 1..4 : IsInt(<<parts[i]>>)
          THEN <<FlatConnection(int(<<parts[1]>>), int(<<parts[2]>>),
                                int(<<parts[3]>>), int(<<parts[4]>>))>>
          ELSE <<>>

RECURSIVE GcParseLines(_)
GcParseLines(text) ==
  IF text = <<>> THEN <<>>
  ELSE GcParseLine(Head(text)) \o GcParseLines(Tail(text))

\* ------------------------------------------------------------ GaudiRouting
\* module_id is None.
NoModule == -1

BusIds == <<"0000:4d:00.0", "0000:4e:00.0", "0000:4f:00.0">>

ModuleChoices == {0, 1, NoModule}

PortNumbers == {1}

\* GaudiDevice.ports: port number -> is_active, for the ports the device has.
PortMaps == UNION {[S -> BOOLEAN] : S \in SUBSET PortNumbers}

\* The devices dictionaries handed to the matcher, in insertion order.
DeviceDicts ==
  UNION { { [i \in 1..n |-> [bus_id |-> BusIds[i], module_id |-> m[i]]] :
            m \in [1..n -> ModuleChoices] } : n \in 0..MaxDevices }

\* The GaudiDevice objects a GaudiDeviceFactory caches, in insertion order.
Inventories ==
  UNION { { [i \in 1..n |-> [bus_id |-> BusIds[i], module_id |-> d[i].module_id,
                             ports |-> d[i].ports]] :
            d \in [1..n -> [module_id : ModuleChoices, ports : PortMaps]] } :
          n \in 0..MaxDevices }

LinkInit ==
  /\ csv_text = <<>>
  /\ csv_parser = "none"
  /\ parse_returned = <<>>
  /\ link_pc = "new"
  /\ self_connections = <<>>
  /\ match_calls = 0
  /\ match_devices = <<>>
  /\ matched = <<>>
  /\ same_devices = FALSE
  /\ matched_before = <<>>
  /\ make_pc = "not_called"
  /\ make_inventory = <<>>
  /\ make_verify = FALSE
  /\ self_made = <<>>

\* GaudiRouting.__init__, which parses the connectivity file. A file that
\* does not exist leaves self.connections empty.
GaudiRouting_init(text, exists) ==
  /\ link_pc = "new"
  /\ link_pc' = "parsed"
  /\ self_connections' = IF exists THEN ParseRows(text) ELSE <<>>
  /\ UNCHANGED <<csv_text, csv_parser, parse_returned, match_calls,
                 match_devices, matched, same_devices, matched_before,
                 make_pc, make_inventory, make_verify, self_made>>
  /\ UNCHANGED nonLinkVars

\* GaudiRouting.parse_connectivity_file of src/src, called on its own.
parse_connectivity_file(text, exists) ==
  /\ link_pc = "new"
  /\ csv_parser = "none"
  /\ link_pc' = "parsed"
  /\ csv_parser' = "src"
  /\ csv_text' = IF exists THEN text ELSE <<>>
  /\ parse_returned' = IF exists THEN ParseRows(text) ELSE <<>>
  /\ self_connections' = IF exists THEN ParseRows(text) ELSE self_connections
  /\ UNCHANGED <<match_calls, match_devices, matched, same_devices,
                 matched_before, make_pc, make_inventory, make_verify,
                 self_made>>
  /\ UNCHANGED nonLinkVars

\* GaudiRouting.parse_connectivity_file of gaudi_connect; its connections
\* are flat dictionaries.
gc_parse_connectivity_file(text, exists) ==
  /\ link_pc = "new"
  /\ csv_parser = "none"
  /\ csv_parser' = "gaudi_connect"
  /\ csv_text' = IF exists THEN text ELSE <<>>
  /\ parse_returned' = IF exists THEN GcParseLines(text) ELSE <<>>
  /\ UNCHANGED <<link_pc, self_connections, match_calls, match_devices,
                 matched, same_devices, matched_before, make_pc,
                 make_inventory, make_verify, self_made>>
  /\ UNCHANGED nonLinkVars

\* A dictionary that has every module id at the first device.
module_to_bus_id_first(devices) ==
  [m \in {devices[i].module_id : i \in DOMAIN devices} \ {NoModule} |->
     devices[1].bus_id]

\* The module_to_bus_id dictionary of match_devices_to_connections: a later
\* device replaces an earlier one with the same module id.
module_to_bus_id(devices) ==
  LET ids == {devices[i].module_id : i \in DOMAIN devices} \ {NoModule}
      last(m) == CHOOSE i \in DOMAIN devices :
                   /\ devices[i].module_id = m
                   /\ \A j \in DOMAIN devices :
                        devices[j].module_id = m => j <= i
  IN [m \in ids |-> devices[last(m)].bus_id]

\* A matcher whose list is in the reverse order.
matched_connections_reversed(connections, devices) ==
  LET map == module_to_bus_id(devices)
      Kept(conn) ==
        /\ conn.source.module_id # conn.destination.module_id
        /\ conn.source.module_id \in DOMAIN map
        /\ conn.destination.module_id \in DOMAIN map
      kept == SelectSeq(connections, Kept)
  IN [i \in 1..Len(kept) |->
        [source |-> kept[Len(kept) + 1 - i].source,
         destination |-> kept[Len(kept) + 1 - i].destination,
         source_device_id |-> map[kept[Len(kept) + 1 - i].source.module_id],
         dest_device_id |->
           map[kept[Len(kept) + 1 - i].destination.module_id]]]

\* The loop of match_devices_to_connections over self.connections.
matched_connections(connections, devices) ==
  LET map == module_to_bus_id(devices)
      Kept(conn) ==
        /\ conn.source.module_id # conn.destination.module_id
        /\ conn.source.module_id \in DOMAIN map
        /\ conn.destination.module_id \in DOMAIN map
      kept == SelectSeq(connections, Kept)
  IN [i \in 1..Len(kept) |->
        [source |-> kept[i].source,
         destination |-> kept[i].destination,
         source_device_id |-> map[kept[i].source.module_id],
         dest_device_id |-> map[kept[i].destination.module_id]]]

\* GaudiRouting.match_devices_to_connections(devices). The call before it is
\* remembered, to compare the two.
match_devices_to_connections(devices) ==
  /\ link_pc = "parsed"
  /\ match_calls < MaxMatchCalls
  /\ match_calls' = match_calls + 1
  /\ same_devices' = (match_calls >= 1 /\ devices = match_devices)
  /\ matched_before' = matched
  /\ match_devices' = devices
  /\ matched' = IF self_connections = <<>> THEN <<>>
                ELSE matched_connections(self_connections, devices)
  /\ UNCHANGED <<csv_text, csv_parser, parse_returned, link_pc,
                 self_connections, make_pc, make_inventory, make_verify,
                 self_made>>
  /\ UNCHANGED nonLinkVars

\* ----------------------------------------------------------- RunConnection
\* GaudiDeviceFactory.get_devices_by_module_id and the device_dicts that
\* make_connections builds of it: one device for each module id, the last one
\* of the inventory that has it, and none for a device without module id.
device_dicts(inventory) ==
  LET Last(i) == \A j \in DOMAIN inventory :
                   inventory[j].module_id = inventory[i].module_id => j <= i
      chosen == {i \in DOMAIN inventory :
                   inventory[i].module_id # NoModule /\ Last(i)}
      Chosen(device) == \E i \in chosen : inventory[i] = device
      devices == SelectSeq(inventory, Chosen)
  IN [i \in 1..Len(devices) |->
        [bus_id |-> devices[i].bus_id, module_id |-> devices[i].module_id]]

\* A port-health view that has every port of a device active.
get_active_ports_all(inventory) ==
  [bus \in {inventory[i].bus_id : i \in DOMAIN inventory} |->
     LET device == CHOOSE d \in {inventory[i] : i \in DOMAIN inventory} :
                     d.bus_id = bus
     IN DOMAIN device.ports]

\* GaudiDeviceFactory.get_active_ports: bus id -> the set of its active ports.
get_active_ports(inventory) ==
  [bus \in {inventory[i].bus_id : i \in DOMAIN inventory} |->
     LET device == CHOOSE d \in {inventory[i] : i \in DOMAIN inventory} :
                     d.bus_id = bus
     IN {p \in DOMAIN device.ports : device.ports[p]}]

\* The filter of make_connections and the record it builds of a matched link.
made_connections(connections, inventory, verify_connections) ==
  LET active_ports == get_active_ports(inventory)
      links == IF connections = <<>> THEN <<>>
               ELSE matched_connections(connections, device_dicts(inventory))
      Verified(link) ==
        /\ link.source_device_id \in DOMAIN active_ports
        /\ link.dest_device_id \in DOMAIN active_ports
        /\ link.source.port \in active_ports[link.source_device_id]
        /\ link.destination.port \in active_ports[link.dest_device_id]
      Kept(link) == verify_connections => Verified(link)
      kept == SelectSeq(links, Kept)
  IN [i \in 1..Len(kept) |->
        [source |-> [module_id |-> kept[i].source.module_id,
                     port |-> kept[i].source.port,
                     bus_id |-> kept[i].source_device_id],
         destination |-> [module_id |-> kept[i].destination.module_id,
                          port |-> kept[i].destination.port,
                          bus_id |-> kept[i].dest_device_id]]]

\* RunConnection.make_connections(verify_connections), on the inventory its
\* factory cached.
make_connections(inventory, verify_connections) ==
  /\ link_pc = "parsed"
  /\ make_pc = "not_called"
  /\ make_pc' = "returned"
  /\ make_inventory' = inventory
  /\ make_verify' = verify_connections
  /\ self_made' = made_connections(self_connections, inventory,
                                   verify_connections)
  /\ UNCHANGED <<csv_text, csv_parser, parse_returned, link_pc,
                 self_connections, match_calls, match_devices, matched,
                 same_devices, matched_before>>
  /\ UNCHANGED nonLinkVars

ParseNext ==
  \/ \E text \in Files, exists \in BOOLEAN :
       parse_connectivity_file(text, exists)
  \/ \E text \in Files, exists \in BOOLEAN :
       gc_parse_connectivity_file(text, exists)

\* A GaudiRouting is either handed to the matcher or owned by a RunConnection.
LinkNext ==
  \/ /\ link_pc = "new" /\ tc_pc = "idle"
     /\ \E text \in Files, exists \in BOOLEAN : GaudiRouting_init(text, exists)
  \/ /\ link_pc = "parsed" /\ make_pc = "not_called"
     /\ match_calls < MaxMatchCalls
     /\ \E devices \in DeviceDicts : match_devices_to_connections(devices)
  \/ /\ link_pc = "parsed" /\ make_pc = "not_called" /\ match_calls = 0
     /\ \E inventory \in Inventories, verify \in BOOLEAN :
          make_connections(inventory, verify)

\* -------------------------------------------------------- test_connections
\* The connections handed to test_connections: flat dictionaries.
ConnChoices ==
  { FlatConnection(0, 1, 1, 1), FlatConnection(1, 0, 0, 1),
    FlatConnection(1, 0, 1, 1), FlatConnection(0, 1, 2, 1) }

ConnLists == SeqsOf(ConnChoices, MaxLinks)

\* What the machine reports during a call: two Gaudi devices with the module
\* ids 0 and 1, the state of port 1 of each, whether the InfiniBand devices
\* are found at all, and the PCI vendor id of the second device.
Environments ==
  [port_active : [1..2 -> BOOLEAN], ib_found : BOOLEAN,
   vendor_id : {"1da3", "15b3"}]

Hardware(env) ==
  << [bus_id |-> BusIds[1], module_id |-> 0, vendor_id |-> "1da3",
      ports |-> [p \in PortNumbers |-> env.port_active[1]]],
     [bus_id |-> BusIds[2], module_id |-> 1, vendor_id |-> env.vendor_id,
      ports |-> [p \in PortNumbers |-> env.port_active[2]]] >>

NoPorts == [p \in {} |-> FALSE]

\* A filter that keeps every connection.
filter_valid_connections_all(connections) == connections

\* filter_valid_connections(connections).
filter_valid_connections(connections) ==
  LET Valid(conn) == conn.source_module_id # conn.destination_module_id
  IN SelectSeq(connections, Valid)

\* GaudiDevices.get_device_object_by_module_id(module_id, include_infiniband):
\* the first device with the module id, as a GaudiDevice whose ports are
\* filled in from the InfiniBand information, if that is asked for and found.
\* The result is <<device>>, or <<>> for None.
get_device_object_by_module_id(env, module_id, include_infiniband) ==
  LET hw == Hardware(env)
      found == {i \in DOMAIN hw : hw[i].module_id = module_id}
  IN IF found = {} THEN <<>>
     ELSE LET i == CHOOSE j \in found : \A k \in found : j <= k
          IN << [kind |-> "GaudiDevice",
                 bus_id |-> hw[i].bus_id,
                 module_id |-> hw[i].module_id,
                 vendor_id |-> hw[i].vendor_id,
                 ports |-> IF include_infiniband /\ env.ib_found
                           THEN hw[i].ports ELSE NoPorts] >>

\* get_device_by_module_id(devices, module_id) on the dictionaries of
\* GaudiDevices.get_gaudi_devices: <<device>>, or <<>> for None.
get_device_by_module_id(env, module_id) ==
  LET hw == Hardware(env)
      found == {i \in DOMAIN hw : hw[i].module_id = module_id}
  IN IF found = {} THEN <<>>
     ELSE LET i == CHOOSE j \in found : \A k \in found : j <= k
          IN << [kind |-> "dict",
                 bus_id |-> hw[i].bus_id,
                 module_id |-> hw[i].module_id,
                 vendor_id |-> hw[i].vendor_id,
                 ports |-> NoPorts] >>

\* The ib_devices dictionary of test_connections: bus id -> ports, empty (or
\* None) if the check is not asked for or no InfiniBand device is found.
ib_devices_of(env, check_ib_ports) ==
  LET hw == Hardware(env)
  IN IF check_ib_ports /\ env.ib_found
     THEN [bus \in {hw[i].bus_id : i \in DOMAIN hw} |->
             LET d == CHOOSE x \in {hw[i] : i \in DOMAIN hw} : x.bus_id = bus
             IN d.ports]
     ELSE [bus \in {} |-> NoPorts]

\* GaudiDevice.is_port_active(port_num).
is_port_active(device, port_num) ==
  port_num \in DOMAIN device.ports /\ device.ports[port_num]

\* InfinibandDevices.check_port_status(device_bus_id, port_num, ib_devices),
\* the boolean of the pair it returns.
check_port_status(device_bus_id, port_num, ib_devices) ==
  /\ device_bus_id \in DOMAIN ib_devices
  /\ port_num \in DOMAIN ib_devices[device_bus_id]
  /\ ib_devices[device_bus_id][port_num]

\* connect_devices(source_device, source_port, dest_device, dest_port,
\* ib_devices, simulate): the pair it returns, the message without the
\* values it interpolates, and whether the connection was attempted.
\* random_success is the outcome of random.random() < 0.95.
connect_devices(source_device, source_port, dest_device, dest_port, ib_devices, simulate, random_success) ==
  LET src_active ==
        IF source_device.kind = "GaudiDevice"
        THEN is_port_active(source_device, source_port)
        ELSE check_port_status(source_device.bus_id, source_port, ib_devices)
      dst_active ==
        IF dest_device.kind = "GaudiDevice"
        THEN is_port_active(dest_device, dest_port)
        ELSE check_port_status(dest_device.bus_id, dest_port, ib_devices)
      Returns(success, message, attempted) ==
        [success |-> success, message |-> message, attempted |-> attempted]
  IN IF source_device.module_id = dest_device.module_id
     THEN Returns(FALSE, "Cannot connect same module to itself", FALSE)
     ELSE IF \/ source_device.vendor_id = "unknown"
             \/ dest_device.vendor_id = "unknown"
     THEN Returns(FALSE, "Connection skipped: vendor_id is unknown", FALSE)
     ELSE IF \/ source_device.vendor_id # "1da3"
             \/ dest_device.vendor_id # "1da3"
     THEN Returns(FALSE, "Connection skipped: not Gaudi devices", FALSE)
     ELSE IF DOMAIN ib_devices # {} /\ ~src_active
     THEN Returns(FALSE, "Source port check failed", FALSE)
     ELSE IF DOMAIN ib_devices # {} /\ ~dst_active
     THEN Returns(FALSE, "Destination port check failed", FALSE)
     ELSE IF simulate
     THEN IF random_success
          THEN Returns(TRUE, "Successfully connected", TRUE)
          ELSE Returns(FALSE, "Failed to connect", TRUE)
     ELSE Returns(TRUE, "Connected", TRUE)

\* "port check failed" in message.
PortCheckFailed(message) ==
  message \in {"Source port check failed", "Destination port check failed"}

\* test_single_connection(conn): success, the error or message, the
\* failure_type of the failure_info, and whether the connection was attempted.
test_single_connection(args, conn, random_success) ==
  LET Lookup(module_id) ==
        IF args.use_device_objects
        THEN get_device_object_by_module_id(args.env, module_id,
                                            args.check_ib_ports)
        ELSE get_device_by_module_id(args.env, module_id)
      src_device == Lookup(conn.source_module_id)
      dst_device == Lookup(conn.destination_module_id)
      Returns(success, message, failure_type, attempted) ==
        [success |-> success, message |-> message,
         failure_type |-> failure_type, attempted |-> attempted]
  IN IF src_device = <<>>
     THEN Returns(FALSE, "Source device not found", "None", FALSE)
     ELSE IF dst_device = <<>>
     THEN Returns(FALSE, "Destination device not found", "None", FALSE)
     ELSE LET r == connect_devices(src_device[1], conn.source_port,
                                   dst_device[1], conn.destination_port,
                                   ib_devices_of(args.env, args.check_ib_ports),
                                   args.simulate, random_success)
          IN IF ~r.success
             THEN Returns(FALSE, r.message,
                          IF PortCheckFailed(r.message)
                          THEN "inactive_port" ELSE "None",
                          r.attempted)
             ELSE Returns(TRUE, r.message, "None", r.attempted)

\* A count that leaves the inactive-port failures out of 'failed'.
count_result_split(res, conn, outcome) ==
  IF outcome.success
  THEN [res EXCEPT !.successful = @ + 1]
  ELSE [res EXCEPT
          !.failed = IF outcome.failure_type = "inactive_port"
                     THEN @ ELSE @ + 1,
          !.failures = Append(@, [error |-> outcome.message,
                                  failure_type |-> outcome.failure_type,
                                  connection |-> <<conn>>]),
          !.inactive_ports = IF outcome.failure_type = "inactive_port"
                             THEN @ + 1 ELSE @]

\* The update of results for one tested connection, the same in both modes.
count_result(res, conn, outcome) ==
  IF outcome.success
  THEN [res EXCEPT !.successful = @ + 1]
  ELSE [res EXCEPT
          !.failed = @ + 1,
          !.failures = Append(@, [error |-> outcome.message,
                                  failure_type |-> outcome.failure_type,
                                  connection |-> <<conn>>]),
          !.inactive_ports = IF outcome.failure_type = "inactive_port"
                             THEN @ + 1 ELSE @]

\* The except branch of the parallel loop.
count_exception(res) ==
  [res EXCEPT
     !.failed = @ + 1,
     !.failures = Append(@, [error |-> "Test execution error",
                             failure_type |-> "None",
                             connection |-> <<>>])]

NoOutcome ==
  [success |-> FALSE, message |-> "", failure_type |-> "None",
   attempted |-> FALSE]

NoArgs ==
  [connections |-> <<>>, parallel |-> FALSE, simulate |-> FALSE,
   check_ib_ports |-> FALSE, use_device_objects |-> FALSE,
   env |-> [port_active |-> [i \in 1..2 |-> FALSE], ib_found |-> FALSE,
            vendor_id |-> "1da3"]]

NewResults(total, skipped) ==
  [total_connections |-> total, successful |-> 0, failed |-> 0,
   skipped |-> skipped, inactive_ports |-> 0, failures |-> <<>>,
   success_rate |-> 0]

ConnInit ==
  /\ tc_pc = "idle"
  /\ tc_args = NoArgs
  /\ tc_valid = <<>>
  /\ tc_results = NewResults(0, 0)
  /\ tc_next = 0
  /\ tc_future = <<>>
  /\ tc_collected = {}
  /\ tc_attempted = {}

\* test_connections up to the tests: the filter, the results dictionary, the
\* early return, and in parallel mode the submission of the futures.
test_connections(connections, parallel, simulate, check_ib_ports, use_device_objects, env) ==
  /\ tc_pc = "idle"
  /\ LET valid_connections == filter_valid_connections(connections)
     IN /\ tc_valid' = valid_connections
        /\ tc_results' = NewResults(Len(valid_connections),
                                    Len(connections) - Len(valid_connections))
        /\ tc_pc' = IF valid_connections = <<>> THEN "returned" ELSE "testing"
        /\ tc_future' = IF parallel
                        THEN [i \in 1..Len(valid_connections) |->
                                [state |-> "pending", outcome |-> NoOutcome]]
                        ELSE <<>>
  /\ tc_args' = [connections |-> connections, parallel |-> parallel,
                 simulate |-> simulate, check_ib_ports |-> check_ib_ports,
                 use_device_objects |-> use_device_objects, env |-> env]
  /\ tc_next' = 1
  /\ UNCHANGED <<tc_collected, tc_attempted>>
  /\ UNCHANGED nonConnVars

\* Sequential mode: one turn of the loop.
tc_test_next(random_success) ==
  /\ tc_pc = "testing"
  /\ ~tc_args.parallel
  /\ tc_next <= Len(tc_valid)
  /\ LET outcome == test_single_connection(tc_args, tc_valid[tc_next],
                                           random_success)
     IN /\ tc_results' = count_result(tc_results, tc_valid[tc_next], outcome)
        /\ tc_attempted' = IF outcome.attempted
                           THEN tc_attempted \cup {tc_next} ELSE tc_attempted
  /\ tc_next' = tc_next + 1
  /\ UNCHANGED <<tc_pc, tc_args, tc_valid, tc_future, tc_collected>>
  /\ UNCHANGED nonConnVars

\* Sequential mode: test_single_connection raises, and test_connections
\* with it.
tc_test_raises ==
  /\ tc_pc = "testing"
  /\ ~tc_args.parallel
  /\ tc_next <= Len(tc_valid)
  /\ tc_pc' = "raised"
  /\ UNCHANGED <<tc_args, tc_valid, tc_results, tc_next, tc_future,
                 tc_collected, tc_attempted>>
  /\ UNCHANGED nonConnVars

\* Parallel mode: a thread of the executor runs test_single_connection.
tc_thread_runs(i, random_success) ==
  /\ tc_pc \in {"testing", "unwinding"}
  /\ tc_args.parallel
  /\ i \in DOMAIN tc_future
  /\ tc_future[i].state = "pending"
  /\ LET outcome == test_single_connection(tc_args, tc_valid[i],
                                           random_success)
     IN /\ tc_future' = [tc_future EXCEPT
                           ![i] = [state |-> "done", outcome |-> outcome]]
        /\ tc_attempted' = IF outcome.attempted
                           THEN tc_attempted \cup {i} ELSE tc_attempted
  /\ UNCHANGED <<tc_pc, tc_args, tc_valid, tc_results, tc_next, tc_collected>>
  /\ UNCHANGED nonConnVars

\* Parallel mode: test_single_connection raises in its thread.
tc_thread_raises(i) ==
  /\ tc_pc \in {"testing", "unwinding"}
  /\ tc_args.parallel
  /\ i \in DOMAIN tc_future
  /\ tc_future[i].state = "pending"
  /\ tc_future' = [tc_future EXCEPT ![i].state = "raised"]
  /\ UNCHANGED <<tc_pc, tc_args, tc_valid, tc_results, tc_next, tc_collected,
                 tc_attempted>>
  /\ UNCHANGED nonConnVars

\* Parallel mode: as_completed yields a finished future and the calling
\* thread counts it.
tc_as_completed(i) ==
  /\ tc_pc = "testing"
  /\ tc_args.parallel
  /\ i \in DOMAIN tc_future
  /\ i \notin tc_collected
  /\ tc_future[i].state # "pending"
  /\ tc_collected' = tc_collected \cup {i}
  /\ tc_results' = IF tc_future[i].state = "done"
                   THEN count_result(tc_results, tc_valid[i],
                                     tc_future[i].outcome)
                   ELSE count_exception(tc_results)
  /\ UNCHANGED <<tc_pc, tc_args, tc_valid, tc_next, tc_future, tc_attempted>>
  /\ UNCHANGED nonConnVars

\* Parallel mode: the timeout of as_completed passes before every future is
\* finished; TimeoutError is raised in the calling thread.
tc_as_completed_timeout ==
  /\ tc_pc = "testing"
  /\ tc_args.parallel
  /\ \E i \in DOMAIN tc_future : tc_future[i].state = "pending"
  /\ tc_pc' = "unwinding"
  /\ UNCHANGED <<tc_args, tc_valid, tc_results, tc_next, tc_future,
                 tc_collected, tc_attempted>>
  /\ UNCHANGED nonConnVars

\* Parallel mode: the with block has waited for the threads still running,
\* and the TimeoutError leaves test_connections.
tc_timeout_propagates ==
  /\ tc_pc = "unwinding"
  /\ \A i \in DOMAIN tc_future : tc_future[i].state # "pending"
  /\ tc_pc' = "raised"
  /\ UNCHANGED <<tc_args, tc_valid, tc_results, tc_next, tc_future,
                 tc_collected, tc_attempted>>
  /\ UNCHANGED nonConnVars

\* Every connection is counted: the success rate, and the return.
tc_return ==
  /\ tc_pc = "testing"
  /\ IF tc_args.parallel
     THEN tc_collected = DOMAIN tc_future
     ELSE tc_next > Len(tc_valid)
  /\ tc_pc' = "returned"
  /\ tc_results' =
       [tc_results EXCEPT
          !.success_rate = (tc_results.successful * 100)
                             \div tc_results.total_connections]
  /\ UNCHANGED <<tc_args, tc_valid, tc_next, tc_future, tc_collected,
                 tc_attempted>>
  /\ UNCHANGED nonConnVars

\* A call of test_connections, in a run that uses no GaudiRouting of src/src.
ConnNext ==
  \/ /\ tc_pc = "idle" /\ link_pc = "new"
     /\ \E connections \in ConnLists, env \in Environments,
           parallel, simulate, check_ib_ports, use_device_objects \in BOOLEAN :
          test_connections(connections, parallel, simulate, check_ib_ports,
                           use_device_objects, env)
  \/ \E random_success \in BOOLEAN : tc_test_next(random_success)
  \/ tc_test_raises
  \/ \E i \in 1..MaxLinks, random_success \in BOOLEAN :
       tc_thread_runs(i, random_success)
  \/ \E i \in 1..MaxLinks : tc_thread_raises(i)
  \/ \E i \in 1..MaxLinks : tc_as_completed(i)
  \/ tc_as_completed_timeout
  \/ tc_timeout_propagates
  \/ tc_return

\* ------------------------------------------------------------ the commands
\* str(n), for the numbers of the model.
str(n) ==
  IF n + 1 \in DOMAIN Digits THEN Digits[n + 1]
  ELSE CASE n = 1000 -> "1000"
         [] n = 4096 -> "4096"
         [] n = 18515 -> "18515"

perf_test_path == "/opt/habanalabs/perf-test/perf_test"

\* What a test is configured with: the device names ("" for a device without
\* ib_name), the ports, and for PerfRunner the server host, the TCP port and
\* the extra arguments.
IbNames == {"", "hbl_0", "hbl_1"}

IbPorts == {0, 1}

\* The GID index a PerfRunner is constructed with; the constructor and
\* build_command_args put 0 in its place.
GidIndexes == {0, 3}

Requests ==
  [test_type : {"pp", "bw"}, size : {4096}, iterations : {1000},
   server_ib_dev : IbNames, server_ib_port : IbPorts,
   client_ib_dev : IbNames, client_ib_port : IbPorts,
   server_host : {"127.0.0.1"}, port : {18515}, extra_args : {<<>>}]

Configurations ==
  [test_type : {"pp", "bw"}, size : {4096}, iterations : {1000},
   server_ib_dev : IbNames, server_ib_port : IbPorts,
   client_ib_dev : IbNames, client_ib_port : IbPorts,
   server_host : {"127.0.0.1", "localhost"}, port : {18515},
   gid_idx : GidIndexes, extra_args : {<<>>, <<"-v">>}]

\* AsyncPerfRunner._build_command(request, is_server).
build_command(request, is_server) ==
  LET device == IF is_server THEN request.server_ib_dev
                ELSE request.client_ib_dev
      port == IF is_server THEN request.server_ib_port
              ELSE request.client_ib_port
  IN <<perf_test_path>>
     \o <<"-t", request.test_type>>
     \o <<"-s", str(request.size)>>
     \o <<"-n", str(request.iterations)>>
     \o (IF device # "" THEN <<"-d", device>> ELSE <<>>)
     \o <<"-i", str(port)>>
     \o <<"-g", "0">>
     \o (IF is_server THEN <<>> ELSE <<"127.0.0.1">>)

\* PerfRunner.build_command_args(is_server): an argument is added if its
\* value is true, which 0 and the empty string are not.
build_command_args(self, is_server) ==
  LET device == IF is_server THEN self.server_ib_dev ELSE self.client_ib_dev
      port == IF is_server THEN self.server_ib_port ELSE self.client_ib_port
  IN <<perf_test_path>>
     \o (IF self.port # 0 THEN <<"-p", str(self.port)>> ELSE <<>>)
     \o (IF self.test_type # "" THEN <<"-t", self.test_type>> ELSE <<>>)
     \o (IF self.size # 0 THEN <<"-s", str(self.size)>> ELSE <<>>)
     \o (IF self.iterations # 0 THEN <<"-n", str(self.iterations)>> ELSE <<>>)
     \o (IF device # "" THEN <<"-d", device>> ELSE <<>>)
     \o (IF port # 0 THEN <<"-i", str(port)>> ELSE <<>>)
     \o <<"-g", "0">>
     \o self.extra_args
     \o (IF ~is_server /\ self.server_host # ""
         THEN <<self.server_host>> ELSE <<>>)

CmdInit ==
  /\ cmd_runner = "none"
  /\ cmd_config = <<>>
  /\ server_cmd = <<>>
  /\ client_cmd = <<>>

\* AsyncPerfRunner._run_single_test builds the two commands of a request.
async_build_commands(request) ==
  /\ cmd_runner = "none"
  /\ cmd_runner' = "AsyncPerfRunner"
  /\ cmd_config' = <<request>>
  /\ server_cmd' = build_command(request, TRUE)
  /\ client_cmd' = build_command(request, FALSE)
  /\ UNCHANGED nonCmdVars

\* PerfRunner.start_server and start_client build the two commands of the
\* connection the runner is configured for.
perf_build_commands(self) ==
  /\ cmd_runner = "none"
  /\ cmd_runner' = "PerfRunner"
  /\ cmd_config' = <<self>>
  /\ server_cmd' = build_command_args(self, TRUE)
  /\ client_cmd' = build_command_args(self, FALSE)
  /\ UNCHANGED nonCmdVars

CmdNext ==
  \/ /\ cmd_runner = "none"
     /\ \E request \in Requests : async_build_commands(request)
  \/ /\ cmd_runner = "none"
     /\ \E self \in Configurations : perf_build_commands(self)

\* ------------------------------------------------------- GaudiDeviceFactory
\* The factory is written for the GaudiDevices of gaudi_connect, whose
\* get_gaudi_devices, get_detailed_gaudi_info and clear_cache it calls.
\* A cache is <<>> while it is None and <<value>> once it is populated: the
\* state after __init__, and after clear_cache, has every cache None.
\* hl_smi is what hl-smi reports at the moment, one row for each device; the
\* index of a device is the place of its row.
NoCaches ==
  [devices_cache |-> <<>>, detailed_devices_cache |-> <<>>,
   devices_by_bus_id |-> <<>>, devices_by_module_id |-> <<>>,
   devices_by_index |-> <<>>, device_id_mapping |-> <<>>]

FactoryInit ==
  /\ hl_smi = <<>>
  /\ hl_changes = 0
  /\ factory = NoCaches

\* The machine's inventory changes between two calls.
inventory_changes(devices) ==
  /\ hl_changes < MaxSnapshots
  /\ devices # hl_smi
  /\ hl_smi' = devices
  /\ hl_changes' = hl_changes + 1
  /\ UNCHANGED factory
  /\ UNCHANGED nonFactoryVars

\* GaudiDevices.get_gaudi_devices(use_cache): the cache if allowed and there,
\* else what hl-smi reports now, which becomes the cache.
gaudi_devices_of(c, use_cache) ==
  IF use_cache /\ c.devices_cache # <<>> THEN c.devices_cache[1] ELSE hl_smi

after_get_gaudi_devices(c, use_cache) ==
  [c EXCEPT !.devices_cache = <<gaudi_devices_of(c, use_cache)>>]

\* GaudiDevices.get_detailed_gaudi_info(use_cache): likewise; an output
\* without rows is returned as {} and not cached.
detailed_gaudi_info_of(c, use_cache) ==
  IF use_cache /\ c.detailed_devices_cache # <<>>
  THEN c.detailed_devices_cache[1] ELSE hl_smi

after_get_detailed_gaudi_info(c, use_cache) ==
  IF use_cache /\ c.detailed_devices_cache # <<>> THEN c
  ELSE IF hl_smi = <<>> THEN c
  ELSE [c EXCEPT !.detailed_devices_cache = <<hl_smi>>]

\* The GaudiDevice objects get_all_devices builds: one for each row of the
\* basic information, with the detailed information of the same bus id laid
\* over it where there is one.
device_objects(basic, detailed) ==
  [i \in 1..Len(basic) |->
     LET rows == {j \in 1..Len(detailed) : detailed[j].bus_id = basic[i].bus_id}
     IN [bus_id |-> basic[i].bus_id,
         module_id |-> IF rows = {} THEN basic[i].module_id
                       ELSE detailed[CHOOSE j \in rows : TRUE].module_id,
         index |-> i - 1]]

\* GaudiDeviceFactory.get_all_devices after its refresh.
after_get_all_devices(c) ==
  IF c.devices_by_bus_id # <<>> THEN c
  ELSE LET c1 == after_get_gaudi_devices(c, TRUE)
           c2 == after_get_detailed_gaudi_info(c1, TRUE)
       IN [c2 EXCEPT !.devices_by_bus_id =
                       <<device_objects(gaudi_devices_of(c, TRUE),
                                        detailed_gaudi_info_of(c1, TRUE))>>]

\* The dictionary a loop `result[device.key] = device` over the devices
\* leaves: for each value of the attribute that is not None, the last device
\* that has it.
keyed_by(devices, key) ==
  LET keys == {devices[i][key] : i \in 1..Len(devices)} \ {NoModule}
      Last(k) == CHOOSE i \in 1..Len(devices) :
                   /\ devices[i][key] = k
                   /\ \A j \in 1..Len(devices) : devices[j][key] = k => j <= i
  IN [k \in keys |-> devices[Last(k)]]

\* GaudiDeviceFactory.get_devices_by_module_id after its refresh.
after_get_devices_by_module_id(c) ==
  IF c.devices_by_module_id # <<>> THEN c
  ELSE LET c1 == after_get_all_devices(c)
       IN [c1 EXCEPT !.devices_by_module_id =
                       <<keyed_by(c1.devices_by_bus_id[1], "module_id")>>]

\* GaudiDeviceFactory.get_devices_by_index after its refresh.
after_get_devices_by_index(c) ==
  IF c.devices_by_index # <<>> THEN c
  ELSE LET c1 == after_get_all_devices(c)
       IN [c1 EXCEPT !.devices_by_index =
                       <<keyed_by(c1.devices_by_bus_id[1], "index")>>]

\* The mapping get_device_mapping builds: every device has the vendor id
\* 1da3, so the one key "1da3:1724" ends with the bus id of the last row.
device_mapping(devices) ==
  IF devices = <<>> THEN <<>>
  ELSE <<[device_id |-> "1da3:1724", bus_id |-> devices[Len(devices)].bus_id]>>

clear_cache ==
  /\ factory # NoCaches
  /\ factory' = NoCaches
  /\ UNCHANGED <<hl_smi, hl_changes>>
  /\ UNCHANGED nonFactoryVars

get_device_mapping(use_cache) ==
  /\ factory' =
       IF use_cache /\ factory.device_id_mapping # <<>> THEN factory
       ELSE [after_get_detailed_gaudi_info(factory, use_cache) EXCEPT
               !.device_id_mapping =
                  <<device_mapping(detailed_gaudi_info_of(factory, use_cache))>>]
  /\ UNCHANGED <<hl_smi, hl_changes>>
  /\ UNCHANGED nonFactoryVars

get_all_devices(refresh) ==
  /\ factory' = after_get_all_devices(IF refresh THEN NoCaches
                                      ELSE factory)
  /\ UNCHANGED <<hl_smi, hl_changes>>
  /\ UNCHANGED nonFactoryVars

get_devices_by_module_id(refresh) ==
  /\ factory' = after_get_devices_by_module_id(IF refresh THEN NoCaches
                                               ELSE factory)
  /\ UNCHANGED <<hl_smi, hl_changes>>
  /\ UNCHANGED nonFactoryVars

get_devices_by_index(refresh) ==
  /\ factory' = after_get_devices_by_index(IF refresh THEN NoCaches
                                           ELSE factory)
  /\ UNCHANGED <<hl_smi, hl_changes>>
  /\ UNCHANGED nonFactoryVars

FactoryNext ==
  \/ /\ hl_changes < MaxSnapshots
     /\ \E devices \in DeviceDicts : inventory_changes(devices)
  \/ clear_cache
  \/ \E use_cache \in BOOLEAN : get_device_mapping(use_cache)
  \/ \E refresh \in BOOLEAN : get_all_devices(refresh)
  \/ \E refresh \in BOOLEAN : get_devices_by_module_id(refresh)
  \/ \E refresh \in BOOLEAN : get_devices_by_index(refresh)

\* ---------------------------------------------------------- specifications
Init == PoolInit /\ RstInit /\ PerfInit /\ RctaInit /\ LinkInit
        /\ ConnInit /\ CmdInit /\ DriverInit /\ FactoryInit

\* The worker pool.
Next == PoolNext

Spec == Init /\ [][Next]_vars

\* The worker pool, for the dequeue order.
NextOrder == OrderNext

SpecOrder == Init /\ [][NextOrder]_vars

\* The supervision of a test: either one call of
\* AsyncPerfRunner._run_single_test, or a PerfRunner driven by
\* RealRunConnection or by its own run_multiple_tests (a run uses one runner
\* and one driver: see OtherRunnerUnused).
NextTest == RstNext \/ PerfNext

SpecTest == Init /\ [][NextTest]_vars

\* A call of run_connection_tests_async.
NextRun == RctaNext

SpecRun == Init /\ [][NextRun]_vars

\* The two parsers of the connectivity file.
NextParse == ParseNext

SpecParse == Init /\ [][NextParse]_vars

\* The links of a connectivity file on their way to the tests: a run is
\* either of src/src (a GaudiRouting, handed to the matcher or owned by a
\* RunConnection) or of gaudi_connect (a call of test_connections).
NextLinks == LinkNext \/ ConnNext

SpecLinks == Init /\ [][NextLinks]_vars

\* The commands of a test, as either runner builds them.
NextCmd == CmdNext

SpecCmd == Init /\ [][NextCmd]_vars

\* The caches of a GaudiDeviceFactory on a machine whose inventory changes.
NextFactory == FactoryNext

SpecFactory == Init /\ [][NextFactory]_vars

\* ------------------------------------------------------------------ claims
\* C1: at most max_concurrent_tests process pairs are running at any time,
\* whatever was submitted and also while and after stop() runs.
ConcurrencyBound == Cardinality(ActivePairs) <= MaxConcurrent

\* Witness of C1: N pairs running while stop() waits and a request still queues.
ConcurrencyBoundReached ==
  /\ Cardinality(ActivePairs) = MaxConcurrent
  /\ stop_pc = "shutdown_wait"
  /\ request_queue # <<>>

\* A worker is done with request r: r was dequeued, its thread has ended and no
\* worker awaits it any more.
Handled(r) ==
  /\ r <= submitted
  /\ thread[r] \in {"returned", "raised"}
  /\ \A w \in Workers : worker[w].req # r

\* C2: as long as the run is not stopped, every request a worker is done with
\* has exactly one result stored under its id, the one its test produced, and
\* no request ever has two: also when _run_single_test raised.
EveryRequestGetsOneResult ==
  stop_pc = "idle" =>
    \A r \in RequestIds :
      /\ stored[r] <= 1
      /\ Handled(r) => stored[r] = 1 /\ results[r] \in PoolStatuses

\* C3: every dequeue takes the queued request of the least priority value and,
\* among those of that priority, the one submitted first.
DequeueOrder == last_dequeue.taken = last_dequeue.fifo

Sent(sig) == \E i \in 1..Len(signals) : signals[i][2] = sig

\* C4: once the client's deadline has passed, the status is 'timeout', the
\* client and the server have been killed with SIGKILL, no SIGTERM having been
\* sent, and neither runs; this still holds when _run_single_test returns.
TimeoutKills ==
  "timed_out" \in events =>
    /\ result.status = "timeout"
    /\ ~Sent("SIGTERM")
    /\ ~Alive(client_process)
    /\ ~Alive(server_process)

\* Witness of C4: a test that returned after its deadline passed with both
\* processes running.
TimeoutKillsReached ==
  /\ pc = "returned"
  /\ "timed_out" \in events
  /\ signals = <<(<<"client", "SIGKILL">>), (<<"server", "SIGKILL">>)>>

\* C5: when a test ends, whichever way, neither its server nor its client is
\* still running: at the end of _run_single_test and of PerfRunner.run.
NoProcessLeft ==
  /\ pc \in {"returned", "raised"} =>
       ~Alive(server_process) /\ ~Alive(client_process)
  /\ run_pc \in {"returned", "idle"} =>
       ~Alive(self_server_process) /\ ~Alive(self_client_process)

\* Witness of C5: the client could not be spawned and the server, already
\* running, was killed by the finally block.
NoProcessLeftReached ==
  /\ pc = "returned"
  /\ "exception" \in events
  /\ client_process = "None"
  /\ server_process = "killed"

\* C6: the status of a connection's test is decided by that test's own exit
\* code and output alone: what PerfRunner.analyze_results decides is what it
\* would decide on the lines the test's own processes printed, and what a
\* worker stores for a request is what that request's test returned.
StatusIsolation ==
  /\ run_pc = "save_logs" =>
       self_test_success =
         analyze_verdict(self_client_returncode, own_at_analysis.server,
                         own_at_analysis.client)
  /\ \A r \in RequestIds : results[r] # "none" => results[r] = ret[r]

\* C7: a test that was classified and whose client ended with a non-zero exit
\* code returns 'failed'.
NonZeroExitFails ==
  (pc = "returned" /\ "classified" \in events /\ client_returncode # "0")
    => result.status = "failed"

HasErrorMarker(lines) ==
  \E i \in 1..Len(lines) :
    \E err \in {"error", "failed", "cannot", "unable"} : In(err, Lower(lines[i]))

\* C8: a test that was classified, whose client ended with exit code 0 and
\* whose client or server output holds a failure/error marker, returns 'failed'.
ErrorMarkerFails ==
  (/\ pc = "returned"
   /\ "classified" \in events
   /\ client_returncode = "0"
   /\ HasErrorMarker(result.client_output) \/ HasErrorMarker(result.server_output))
    => result.status = "failed"

HasMetricMarker(lines) ==
  \E i \in 1..Len(lines) :
    \E m \in {"bandwidth", "bw", "latency"} : In(m, Lower(lines[i]))

\* C9: with exit code 0 and no failure/error marker in either output,
\* _analyze_output returns 'success' when a throughput or latency marker occurs
\* (or 'Test PASS' is a line of both outputs) and 'failed' otherwise.
AnalyzeRule ==
  (/\ analyzed # "None"
   /\ client_returncode = "0"
   /\ ~HasErrorMarker(result.client_output)
   /\ ~HasErrorMarker(result.server_output))
    => analyzed =
         IF \/ HasMetricMarker(result.client_output)
            \/ HasMetricMarker(result.server_output)
            \/ /\ Member("Test PASS", result.client_output)
               /\ Member("Test PASS", result.server_output)
         THEN "success" ELSE "failed"

\* Witness of C9: 'success' on the strength of a marker in the server's output
\* alone.
AnalyzeRuleReached ==
  /\ analyzed = "success"
  /\ client_returncode = "0"
  /\ ~HasMetricMarker(result.client_output)
  /\ ~Member("Test PASS", result.client_output)
  /\ HasMetricMarker(result.server_output)

\* C10: the classifier runs only on a test whose client completed in time and
\* without an exception, it yields 'success' or 'failed', and a 'timeout' or an
\* 'error' of the supervisor stays.
ClassifierScope ==
  /\ "classified" \in events =>
       /\ "client_completed" \in events
       /\ "timed_out" \notin events
       /\ "exception" \notin events
       /\ result.status \in {"success", "failed"}
  /\ "timed_out" \in events => result.status = "timeout"
  /\ "exception" \in events => result.status = "error"

\* Witness of C10: a timed-out test past the classification step, unclassified.
ClassifierScopeReached ==
  /\ pc = "finally"
  /\ "timed_out" \in events
  /\ analyzed = "None"
  /\ result.status = "timeout"

\* C11: with a benchmark executable that always exits with code 0 and prints a
\* bandwidth marker, a test that was run (no timeout, no exception) returns
\* 'success'.
StubSucceeds ==
  (/\ pc = "returned"
   /\ result.error_message # "not_found"
   /\ "exception" \notin events
   /\ "timed_out" \notin events
   /\ client_returncode = "0"
   /\ result.client_output = <<"Bandwidth 12.5 Gb/s">>
   /\ result.server_output \in {<<>>, <<"Bandwidth 12.5 Gb/s">>})
    => result.status = "success"

ExceptionIsError ==
  "exception" \in events =>
    /\ result.status = "error"
    /\ result.error_message = "exception"
    /\ pc \in {"save_logs", "returned", "raised"} =>
         /\ server_process \in {"None", "exited", "killed"}
         /\ client_process \in {"None", "exited", "killed"}
         /\ server_process = "killed" =>
              \E i \in 1..Len(signals) : signals[i] = <<"server", "SIGKILL">>
         /\ client_process = "killed" =>
              \E i \in 1..Len(signals) : signals[i] = <<"client", "SIGKILL">>

\* Witness of C15: communicate of the client raised with both processes
\* running, and both were killed.
ExceptionIsErrorReached ==
  /\ pc = "returned"
  /\ "exception" \in events
  /\ signals = <<(<<"server", "SIGKILL">>), (<<"client", "SIGKILL">>)>>
  /\ server_process = "killed"
  /\ client_process = "killed"

\* C16: a client is started only while the server started before it is still
\* running, in _run_single_test and in PerfRunner.run alike.
ClientAfterLivenessCheck ==
  [][/\ (client_process = "None" /\ client_process' = "running")
          => Alive(server_process)
     /\ (run_pc = "start_client" /\ run_pc' = "wait")
          => Alive(self_server_process)]_vars

\* C17: after the client completed, every SIGKILL sent to the server comes
\* after a SIGTERM sent to the server, and SIGTERM is sent at most once.
GracefulFirst ==
  "client_completed" \in events =>
    /\ \A i \in 1..Len(signals) :
         signals[i] = <<"server", "SIGKILL">> =>
           \E j \in 1..(i - 1) : signals[j] = <<"server", "SIGTERM">>
    /\ Cardinality({i \in 1..Len(signals) : signals[i][2] = "SIGTERM"}) <= 1

\* Witness of C17: the server outlived the five seconds after SIGTERM.
GracefulFirstReached ==
  /\ pc = "returned"
  /\ "client_completed" \in events
  /\ signals = <<(<<"server", "SIGTERM">>), (<<"server", "SIGKILL">>)>>

\* C18: once stop() has been called, no step takes a request off the queue
\* and no step starts the process pair of a request.
NothingNewAfterStop ==
  [][stop_pc # "idle" =>
       /\ Len(request_queue') >= Len(request_queue)
       /\ ActivePairs' \subseteq ActivePairs]_vars

\* C19: stop() does not depend on the tests ending by themselves: while it is
\* in progress it can always complete, the pairs in flight being terminated by
\* stop() itself.
StopTerminatesPairs ==
  stop_pc = "shutdown_wait" => ENABLED stop_returns

\* C12: in every summary returned, success + failed + timeout + error equals
\* total.
SummaryAddsUp ==
  rcta_summary.produced =>
    rcta_summary.success + rcta_summary.failed + rcta_summary.timeout
      + rcta_summary.error = rcta_summary.total

Collected == {rcta_summary.details[i].request_id :
                i \in 1..Len(rcta_summary.details)}

InDetails(r) == r \in Collected

\* C13: the details of the summary list the results in the order in which they
\* were stored, i.e. in which the tests completed.
DetailsInCompletionOrder ==
  rcta_summary.produced =>
    [i \in 1..Len(rcta_summary.details) |-> rcta_summary.details[i].request_id]
      = SelectSeq(completion_order, InDetails)

\* C20: a call that was aborted still ends with a summary, which gives no
\* status to a request whose test was never started and counts it as not
\* completed.
AbortedRunHasSummary ==
  (rcta_pc = "done" /\ rcta_aborted) =>
    /\ rcta_summary.produced
    /\ \A r \in 1..rcta_total : thread[r] = "none" => ~InDetails(r)
    /\ rcta_summary.completed
         + Cardinality({r \in 1..rcta_total : thread[r] = "none"})
         <= rcta_summary.total

\* The four values of a connection, of either package.
Values(conn) ==
  IF csv_parser = "src"
  THEN <<conn.source.module_id, conn.source.port,
         conn.destination.module_id, conn.destination.port>>
  ELSE <<conn.source_module_id, conn.source_port,
         conn.destination_module_id, conn.destination_port>>

\* The fields of a line, separated by spaces or by tabs.
FieldsOf(line) == SelectSeq(line.words, NonEmptyWord)

\* The values a line of the file stands for: one quadruple if it has four
\* integer fields, none if it is empty, a comment or too short.
LineValues(line) ==
  LET fields == FieldsOf(line)
  IN IF /\ Len(fields) >= 4
        /\ fields[1] # "#"
        /\ \A i \in 1..4 : IsInt(<<fields[i]>>)
     THEN <<[i \in 1..4 |-> int(<<fields[i]>>)]>>
     ELSE <<>>

RECURSIVE FileValues(_)
FileValues(text) ==
  IF text = <<>> THEN <<>>
  ELSE LineValues(Head(text)) \o FileValues(Tail(text))

\* C28: parse_connectivity_file accepts fields separated by spaces or by
\* tabs: it returns one link for every line with four integer fields, with
\* those values and in file order, and nothing for the empty lines, the
\* comments and the lines with fewer than four integer fields.
SpacesOrTabsAccepted ==
  csv_parser # "none" =>
    [i \in 1..Len(parse_returned) |-> Values(parse_returned[i])]
      = FileValues(csv_text)

\* The device of a snapshot that has the bus id.
DeviceAt(devices, bus) ==
  {devices[i] : i \in {j \in DOMAIN devices : devices[j].bus_id = bus}}

\* C22: every link match_devices_to_connections returns names two different
\* bus ids of the snapshot it was given, and the devices under them have the
\* module ids of the link's source and destination.
MatchedDevicesExist ==
  \A i \in DOMAIN matched :
    /\ \E d \in DeviceAt(match_devices, matched[i].source_device_id) :
         d.module_id = matched[i].source.module_id
    /\ \E d \in DeviceAt(match_devices, matched[i].dest_device_id) :
         d.module_id = matched[i].destination.module_id
    /\ matched[i].source_device_id # matched[i].dest_device_id

\* Witness of C22: a link is returned for a snapshot whose first device has
\* the larger module id.
MatchedDevicesExistReached ==
  /\ Len(matched) >= 1
  /\ Len(match_devices) >= 2
  /\ match_devices[1].module_id > match_devices[2].module_id

\* The positions of self.connections that the links returned were built of:
\* an increasing choice of positions with the same endpoints.
InInputOrder(links, connections) ==
  \E pos \in [DOMAIN links -> DOMAIN connections] :
    /\ \A i, j \in DOMAIN links : i < j => pos[i] < pos[j]
    /\ \A i \in DOMAIN links :
         /\ links[i].source = connections[pos[i]].source
         /\ links[i].destination = connections[pos[i]].destination

Unresolved(devices, m) ==
  \A i \in DOMAIN devices : devices[i].module_id # m

\* C24: a link whose source or destination module id has no device is not
\* silently discarded: what the matcher returns accounts for every connection
\* between two different modules, one of them unresolved or not.
MissingDeviceRecorded ==
  match_calls >= 1 =>
    \A k \in DOMAIN self_connections :
      (/\ self_connections[k].source.module_id
            # self_connections[k].destination.module_id
       /\ \/ Unresolved(match_devices, self_connections[k].source.module_id)
          \/ Unresolved(match_devices,
                        self_connections[k].destination.module_id))
      => \E i \in DOMAIN matched :
           /\ matched[i].source = self_connections[k].source
           /\ matched[i].destination = self_connections[k].destination

\* The port-health view of an inventory has the port of the device active.
ReportedActive(inventory, bus, port) ==
  \E i \in DOMAIN inventory :
    /\ inventory[i].bus_id = bus
    /\ port \in DOMAIN inventory[i].ports
    /\ inventory[i].ports[port]

\* C25: with verification enabled, make_connections returns a link only if
\* its source port and its destination port are both reported active; a port
\* that the device's port map does not have counts as inactive.
OnlyActivePortsMade ==
  (make_pc = "returned" /\ make_verify) =>
    \A i \in DOMAIN self_made :
      /\ ReportedActive(make_inventory, self_made[i].source.bus_id,
                        self_made[i].source.port)
      /\ ReportedActive(make_inventory, self_made[i].destination.bus_id,
                        self_made[i].destination.port)

\* Witness of C25: a verified call returned a link, and left out the link of
\* the file that uses a port its device does not have.
OnlyActivePortsMadeReached ==
  /\ make_pc = "returned"
  /\ make_verify
  /\ Len(self_made) = 1
  /\ \E k \in DOMAIN self_connections :
       self_connections[k] = Connection(1, 0, 0, 1)

\* The number of same-module connections of a flat list.
RECURSIVE SameModuleCount(_)
SameModuleCount(connections) ==
  IF connections = <<>> THEN 0
  ELSE (IF Head(connections).source_module_id
             = Head(connections).destination_module_id THEN 1 ELSE 0)
       + SameModuleCount(Tail(connections))

\* C21: no link with equal source and destination module ids is among the
\* links the matcher returns or among the connections test_connections
\* tests, and the skip count test_connections reports is the number of such
\* links in its input.
SameModuleExcluded ==
  /\ \A i \in DOMAIN matched :
       matched[i].source.module_id # matched[i].destination.module_id
  /\ tc_pc # "idle" =>
       /\ \A i \in DOMAIN tc_valid :
            tc_valid[i].source_module_id # tc_valid[i].destination_module_id
       /\ tc_results.skipped = SameModuleCount(tc_args.connections)
       /\ tc_results.total_connections + tc_results.skipped
            = Len(tc_args.connections)

\* Witness of C21: test_connections returned after it skipped a same-module
\* link and tested another link.
SameModuleExcludedReached ==
  /\ tc_pc = "returned"
  /\ tc_results.skipped = 1
  /\ tc_results.total_connections = 1

\* What the devices of a call report of the port of a link's endpoint: the
\* GaudiDevice's is_port_active, or check_port_status for a dictionary.
ReportsActive(args, module_id, port) ==
  IF args.use_device_objects
  THEN \E d \in {get_device_object_by_module_id(args.env, module_id,
                                                args.check_ib_ports)} :
         d # <<>> /\ is_port_active(d[1], port)
  ELSE \E d \in {get_device_by_module_id(args.env, module_id)} :
         /\ d # <<>>
         /\ check_port_status(d[1].bus_id, port,
                              ib_devices_of(args.env, args.check_ib_ports))

Resolved(args, conn) ==
  /\ get_device_by_module_id(args.env, conn.source_module_id) # <<>>
  /\ get_device_by_module_id(args.env, conn.destination_module_id) # <<>>

\* C26: the reason of a link dropped for port health tells which ports are
\* inactive: the source's only, the destination's only, or both.
PortDropReasonTellsSides ==
  \A k \in DOMAIN tc_results.failures :
    LET f == tc_results.failures[k]
    IN f.failure_type = "inactive_port" =>
         /\ f.error = "Source port check failed" =>
              ReportsActive(tc_args, f.connection[1].destination_module_id,
                            f.connection[1].destination_port)
         /\ f.error = "Destination port check failed" =>
              ReportsActive(tc_args, f.connection[1].source_module_id,
                            f.connection[1].source_port)

\* C27: a resolved link with a port that reports inactive is never tried, and
\* test_connections counts it among the inactive ports.
InactivePortNeverTested ==
  /\ \A i \in tc_attempted :
       /\ ReportsActive(tc_args, tc_valid[i].source_module_id,
                        tc_valid[i].source_port)
       /\ ReportsActive(tc_args, tc_valid[i].destination_module_id,
                        tc_valid[i].destination_port)
  /\ tc_pc = "returned" =>
       \A i \in DOMAIN tc_valid :
         (/\ Resolved(tc_args, tc_valid[i])
          /\ \/ ~ReportsActive(tc_args, tc_valid[i].source_module_id,
                               tc_valid[i].source_port)
             \/ ~ReportsActive(tc_args, tc_valid[i].destination_module_id,
                               tc_valid[i].destination_port))
         => \E k \in DOMAIN tc_results.failures :
              /\ tc_results.failures[k].connection = <<tc_valid[i]>>
              /\ tc_results.failures[k].failure_type = "inactive_port"

\* C30: a call of test_connections that returns has counted every tested
\* connection once, as successful or as failed, in sequential and in
\* parallel mode, and no more inactive ports than failures.
EveryConnectionCountedOnce ==
  tc_pc = "returned" =>
    /\ tc_results.successful + tc_results.failed
         = tc_results.total_connections
    /\ tc_results.inactive_ports <= tc_results.failed
    /\ Len(tc_results.failures) = tc_results.failed

\* Witness of C30: a parallel call returned one success and one failure for
\* an inactive port.
EveryConnectionCountedOnceReached ==
  /\ tc_pc = "returned"
  /\ tc_args.parallel
  /\ tc_results.successful = 1
  /\ tc_results.inactive_ports = 1

\* cmd carries the value after the flag.
Carries(cmd, flag, value) ==
  \E i \in 1..(Len(cmd) - 1) : cmd[i] = flag /\ cmd[i + 1] = value

\* The address of the server: AsyncPerfRunner runs both sides on the local
\* host, PerfRunner has it configured.
ServerAddress == cmd_config[1].server_host

\* C29: for every test the server command carries the source device name and
\* the source port, the client command the destination device name and the
\* destination port, both carry the same test kind, message size and
\* iteration count and the GID index 0 whatever index was configured, and
\* only the client command ends with the address of the server.
CommandsCarryTheTest ==
  cmd_runner # "none" =>
    LET c == cmd_config[1]
    IN /\ c.server_ib_dev # "" => Carries(server_cmd, "-d", c.server_ib_dev)
       /\ Carries(server_cmd, "-i", str(c.server_ib_port))
       /\ c.client_ib_dev # "" => Carries(client_cmd, "-d", c.client_ib_dev)
       /\ Carries(client_cmd, "-i", str(c.client_ib_port))
       /\ \A cmd \in {server_cmd, client_cmd} :
            /\ Carries(cmd, "-t", c.test_type)
            /\ Carries(cmd, "-s", str(c.size))
            /\ Carries(cmd, "-n", str(c.iterations))
            /\ Carries(cmd, "-g", "0")
            /\ \A i \in 1..(Len(cmd) - 1) : cmd[i] = "-g" => cmd[i + 1] = "0"
       /\ client_cmd[Len(client_cmd)] = ServerAddress
       /\ \A i \in 1..Len(server_cmd) : server_cmd[i] # ServerAddress

\* run() leaves its body early: the executable is missing, a start failed or
\* the wait timed out.
RunGivesUp ==
  /\ run_pc \in {"begin", "start_server", "start_client", "wait"}
  /\ run_pc' \in {"cleanup", "finally"}

\* C31: PerfRunner.run returns False, and never True, when the benchmark
\* executable does not exist, when starting the server or the client raises,
\* or when the client has not exited before the timeout elapses: the step at
\* which run() gives up sets its result to False, and the cleanup that follows
\* up to the return leaves the result alone.
RunFailureReturnsFalse ==
  [][/\ RunGivesUp => run_result' = "False"
     /\ run_pc \in {"cleanup", "finally"} => run_result' = run_result]_vars

\* run() returned False after a timeout or a failed start of the client, and
\* its cleanup had to kill the client.
RunFailureReturnsFalseReached ==
  /\ run_pc = "returned"
  /\ run_result = "False"
  /\ self_client_process = "killed"

\* Some line of the two output lists holds one of the words.
SomeLineHolds(words, server_output, client_output) ==
  \E output \in {server_output, client_output} :
    \E i \in 1..Len(output) : Occurring(Lower(output[i])) \cap words # {}

\* C32: PerfRunner.analyze_results sets test_success to True exactly when the
\* client return code is 0, no line of the server or client output matches an
\* error pattern and at least one line matches a success pattern; in every
\* other case it sets test_success to False.
AnalyzeResultsRule ==
  [][(run_pc = "analyze" /\ run_pc' = "save_logs") =>
       (self_test_success' <=>
          /\ self_client_returncode = "0"
          /\ ~SomeLineHolds({"error", "failed", "cannot", "unable", "timeout",
                             "refused"},
                            self_server_output, self_client_output)
          /\ SomeLineHolds({"bandwidth", "latency", "completed", "success",
                            "mbps", "gbps", "usec"},
                           self_server_output, self_client_output))]_vars

\* analyze_results has refused a test whose client ended with 0 and printed a
\* success line, for an error line of the server.
AnalyzeResultsRuleReached ==
  /\ run_pc = "save_logs"
  /\ ~self_test_success
  /\ self_client_returncode = "0"
  /\ self_client_output = <<"Bandwidth 12.5 Gb/s">>
  /\ self_server_output = <<"ERROR: port down">>

\* How many entries of details have the status.
EntriesWith(details, status) ==
  Cardinality({i \in 1..Len(details) : details[i] = status})

FailedRunIsAFailure ==
  rmt_summary.produced =>
    /\ rmt_summary.error = rmt_summary.total - rmt_ran
    /\ rmt_summary.success + rmt_summary.failure = rmt_ran
    /\ rmt_summary.success + rmt_summary.failure + rmt_summary.error
         = rmt_summary.total
    /\ Len(rmt_summary.details) = rmt_ran
    /\ EntriesWith(rmt_summary.details, "failed") = rmt_summary.failure

\* C34: whenever the event loop is between steps, active_tests holds exactly
\* the request ids whose test is executing in the thread pool: an id is in it
\* from the hand-over to the pool until the test has ended (with a result, an
\* exception or a cancellation) and its worker has taken note, so it never
\* holds more than max_concurrent_tests ids and never an id with a stored
\* result.
ActiveTestsAreExecuting ==
  /\ \A r \in active_tests :
       /\ \E w \in Workers : worker[w].pc = "await" /\ worker[w].req = r
       /\ thread[r] \in {"pending", "running", "returned", "raised"}
       /\ stored[r] = 0
  /\ \A w \in Workers : worker[w].pc = "await" => worker[w].req \in active_tests
  /\ Cardinality(active_tests) <= max_concurrent_tests

\* The connections whose test raised in the call: the futures that hold an
\* exception, or in sequential mode the connection the loop was left at.
Raising ==
  IF tc_args.parallel
  THEN {i \in DOMAIN tc_future : tc_future[i].state = "raised"}
  ELSE IF tc_pc = "raised" THEN {tc_next} ELSE {}

\* What a mode yields: nothing when the call raises, else the three counts.
Yields(raised, res) ==
  IF raised THEN <<"raised">>
  ELSE <<"returned", res.successful, res.failed, res.inactive_ports>>

\* The sequential loop from connection i on, for tests without simulation.
RECURSIVE SequentialLoop(_, _, _)
SequentialLoop(i, raising, res) ==
  IF i > Len(tc_valid) THEN Yields(FALSE, res)
  ELSE IF i \in raising THEN Yields(TRUE, res)
  ELSE SequentialLoop(i + 1, raising,
                      count_result(res, tc_valid[i],
                                   test_single_connection(tc_args, tc_valid[i],
                                                          FALSE)))

\* The parallel loop over the futures from i on, none of them late.
RECURSIVE ParallelLoop(_, _, _)
ParallelLoop(i, raising, res) ==
  IF i > Len(tc_valid) THEN Yields(FALSE, res)
  ELSE ParallelLoop(i + 1, raising,
                    IF i \in raising THEN count_exception(res)
                    ELSE count_result(res, tc_valid[i],
                                      test_single_connection(tc_args,
                                                             tc_valid[i],
                                                             FALSE)))

\* A call without simulation is over, and no future was late.
CallIsOver ==
  /\ tc_pc \in {"returned", "raised"}
  /\ ~tc_args.simulate
  /\ tc_args.parallel => tc_pc = "returned"

\* C36: for the same connections and the same device state, with
\* simulate=False, test_connections yields the same successful, failed and
\* inactive_ports counts in parallel mode as in sequential mode, also when
\* the test of a connection raises: what a call has yielded is what either
\* loop yields on its connections.
ModesYieldTheSame ==
  CallIsOver =>
    LET fresh == NewResults(Len(tc_valid), 0)
    IN /\ Yields(tc_pc = "raised", tc_results)
            = SequentialLoop(1, Raising, fresh)
       /\ Yields(tc_pc = "raised", tc_results)
            = ParallelLoop(1, Raising, fresh)

\* The values of a populated dictionary cache.
CachedDevices(cache) == {cache[1][k] : k \in DOMAIN cache[1]}

====
